---- MODULE Spec2Model ----
(***************************************************************************)
(* Model of the dbt-fabric connectivity layer: the query retry routine of  *)
(* FabricConnectionManager.add_query, the long-running-operation poller    *)
(* and the snapshot orchestration of WarehouseSnapshotManager, the token   *)
(* getter get_token_attrs_before, and FabricConnectionManager.open with    *)
(* its one-time start action and end-of-run action.                        *)
(*                                                                         *)
(* Python dicts are records with a "keys" field naming the keys that are   *)
(* present, so that dict.get(key, default) can be modelled.  Strings that  *)
(* the code transforms (str.lower, int) are sequences of one-character     *)
(* strings; strings that are only compared or passed on are TLA+ strings.  *)
(* HTTP responses have the shapes of the Fabric REST contract: a 200 has   *)
(* a JSON object body, listings carry ids, Retry-After is delta-seconds.   *)
(*                                                                         *)
(* get_token_attrs_before is modelled access by access to the global       *)
(* _TOKEN, with threads interleaving and the clock advancing between the   *)
(* accesses; time.time() is read in whole seconds and the identity         *)
(* providers hand out tokens that are outside the safety margin.  open is  *)
(* modelled per thread around _init_lock and _init_done; the connection    *)
(* attempt under retry_connection (dbt-adapters) either establishes the    *)
(* connection or fails, and logger calls do not raise.  One process has    *)
(* one command line and one profile.  A second open on a connection that   *)
(* is already open is a further call of the same action; each open call    *)
(* makes one connection attempt, resolves the driver backend and runs the  *)
(* token getter to completion.                                             *)
(*                                                                         *)
(* driver_backend.py is modelled over an interpreter described by what the *)
(* resolution reads: the Python version, which of mssql-python and pyodbc  *)
(* import, and DBT_FABRIC_DRIVER_BACKEND.  Backend instances carry an id,  *)
(* so that "the same instance" can be told from "an equal one".            *)
(* get_backend is modelled statement by statement around _backend_lock.    *)
(* build_connection_string is an operator over the arguments it branches   *)
(* on and yields the list of key=value parts in order.  add_query is the   *)
(* retry routine inside exception_handler; the DB-API exception classes    *)
(* keep their hierarchy, and release() may itself raise.                   *)
(*                                                                         *)
(* convert_bytes_to_mswindows_byte_string is computed byte by byte: the    *)
(* zero that follows every byte and the four bytes of struct.pack("<i").   *)
(* The connection string that open logs is built character by character,   *)
(* so that str.replace acts on every occurrence of the password.  open is  *)
(* also modelled run by run of its connect() closure: retry_connection     *)
(* (dbt-adapters) is a caller that may run the closure again after any     *)
(* failure, a bounded number of times.  The start action can be seen at    *)
(* a time.sleep of its poller, where the thread still holds _init_lock.    *)
(***************************************************************************)
EXTENDS Integers, Sequences, FiniteSets, TLC

VARIABLES
    \* ---- FabricConnectionManager.add_query._execute_query_with_retry
    qPc,          \* "idle" | "try" | "done"
    qArgs,        \* [retry_limit, retryable_exceptions]
    qAttempt,     \* the attempt parameter of the current (recursive) call
    qExecs,       \* number of cursor.execute calls made
    qSleeps,      \* number of time.sleep(1) calls made
    qLastExec,    \* what the last cursor.execute did
    qOutcome,     \* how the routine ended
    \* ---- WarehouseSnapshotManager._poll_operation_status
    pollPc,       \* "idle" | "loop" | "done"
    poll,         \* [operation_url, operation_id, max_retries, retry_delay]
    attempt,      \* iterations of the for loop started so far
    seen,         \* status code -> number of status GETs answered with it
    sleeps,       \* number of time.sleep calls
    slept,        \* seconds slept in total
    resultGets,   \* number of GETs to {operation_url}/result
    resultUrl,    \* the URL of the last such GET
    lastResp,     \* the response to the last status GET
    lastResult,   \* the response to the last /result GET
    pollOutcome,  \* how the poller ended
    \* ---- WarehouseSnapshotManager.orchestrate_snapshot_management
    orchPc,       \* "idle" | "start" | "gotWarehouses" | "gotSnapshots"
                  \* | "polling" | "done"
    prevOp,       \* the mutating request of the previous call, "none" if
                  \* there was no earlier call or it made no such request
    warehouse_list,       \* local of orchestrate, until its last use
    warehouse_id,         \* local of orchestrate
    warehouse_snapshots,  \* local of orchestrate, until its last use
    reqs,         \* requests issued by the current orchestrate call
    lastPost,     \* the response to the POST of the current call
    orchOutcome,  \* how the current orchestrate call ended
    \* ---- get_token_attrs_before and the process-wide cached token
    now,          \* what time.time() returns, in whole seconds
    ticks,        \* number of times the clock has advanced
    _TOKEN,       \* the module global _TOKEN
    acquisitions, \* number of calls of an acquisition strategy
    tokenCalls,   \* number of get_token_attrs_before calls begun
    profile,      \* the credentials and the backend of the process
    tk,           \* thread -> its get_token_attrs_before call in progress
    \* ---- FabricConnectionManager.open and the one-time actions
    proc,         \* the process: started or not, sys.argv, the profile
    _init_done,   \* the module global _init_done
    _init_lock,   \* the thread holding _init_lock, "free" if none
    _snapshot_manager,  \* whether the module global _snapshot_manager is set
    atexit,       \* the results the registered end-of-run actions hold
    startRuns,    \* number of _run_start_action calls
    orchRuns,     \* number of orchestrate calls made by the start action
    op,           \* thread -> its open call
    ended,        \* the exit of the process
    \* ---- driver_backend: resolution, the module cache, get_backend
    runtime,      \* the interpreter: its version, the drivers that import,
                  \* the environment variable DBT_FABRIC_DRIVER_BACKEND
    instances,    \* number of backend instances constructed
    madeFor,      \* instance id -> the preference it was resolved for
    _active_backend,             \* the module global _active_backend
    _active_backend_preference,  \* the module global of that name
    cached,       \* the last direct get_cached_driver_backend call
    _backend,     \* FabricConnectionManager._backend
    _backend_lock,  \* the thread holding _backend_lock, "free" if none
    backendSets,  \* number of assignments to FabricConnectionManager._backend
    gb,           \* thread -> its get_backend call
    built,        \* the last build_connection_string call
    converted,    \* the last convert_bytes_to_mswindows_byte_string call
    logged,       \* two opens that differ in the secret: what each hands to
                  \* the driver and what each logs
    \* ---- FabricConnectionManager.add_query and exception_handler
    aq            \* the add_query call in progress

qVars == <<qPc, qArgs, qAttempt, qExecs, qSleeps, qLastExec, qOutcome>>
pollVars == <<pollPc, poll, attempt, seen, sleeps, slept, resultGets, resultUrl,
              lastResp, lastResult, pollOutcome>>
orchVars == <<orchPc, prevOp, warehouse_list, warehouse_id, warehouse_snapshots,
              reqs, lastPost, orchOutcome>>
tokVars == <<now, ticks, _TOKEN, acquisitions, tokenCalls, profile, tk>>
openVars == <<proc, _init_done, _init_lock, _snapshot_manager, atexit, startRuns,
              orchRuns, op, ended>>
backVars == <<runtime, instances, madeFor, _active_backend, _active_backend_preference,
              cached, _backend, _backend_lock, backendSets, gb, built, converted, logged>>
aqVars == <<aq>>
vars == <<qVars, pollVars, orchVars, tokVars, openVars, backVars, aqVars>>

\* ------------------------------------------------------------------ bounds
MaxRetries == 5        \* largest max_retries a direct poller call is given
MaxRetryLimit == 4     \* largest retry_limit given to the query retry routine
MaxWarehouses == 2     \* longest warehouse listing
MaxSnapshots == 2      \* longest snapshot listing
MaxTicks == 3          \* number of times the clock advances
MaxTokenCalls == 3     \* number of get_token_attrs_before calls
MaxResults == 2        \* longest results list of run_results.json
MaxCachedCalls == 3    \* number of direct get_cached_driver_backend calls
MaxBytes == 3          \* longest byte string given to the byte-string conversion
MaxOpens == 2          \* number of open calls a thread makes
MaxAttempts == 3       \* number of runs of connect() in one open call

\* ------------------------------------------------------- program constants
DefaultMaxRetries == 5     \* _poll_operation_status(max_retries=5)
DefaultRetryAfter == 30    \* response.headers.get("Retry-After", 30)
MAX_REMAINING_TIME == 300  \* get_token_attrs_before
sql_copt_ss_access_token == 1256
NotebookTokenLifetime == 4500  \* int(time.time() + 4500.0)

\* ----------------------------------------------------------- Python values
None == "None"
NoText == <<>>

Get(d, k, default) == IF k \in d.keys THEN d[k] ELSE default

Upper == <<"A","B","C","D","E","F","G","H","I","J","K","L","M",
           "N","O","P","Q","R","S","T","U","V","W","X","Y","Z">>
LowerAlpha == <<"a","b","c","d","e","f","g","h","i","j","k","l","m",
                "n","o","p","q","r","s","t","u","v","w","x","y","z">>

\* str.lower on one character
LowerChar(c) ==
    IF \E i \in 1..Len(Upper) : Upper[i] = c
    THEN LowerAlpha[CHOOSE i \in 1..Len(Upper) : Upper[i] = c]
    ELSE c

\* (mutant) str.lower left out
LowerNoFold(s) == s

\* str.lower
Lower(s) == [i \in 1..Len(s) |-> LowerChar(s[i])]

Digits == <<"0","1","2","3","4","5","6","7","8","9">>

DigitValue(c) == (CHOOSE i \in 1..Len(Digits) : Digits[i] = c) - 1

\* int(str) on a string of decimal digits
RECURSIVE ParseInt(_)
ParseInt(s) ==
    IF Len(s) = 0 THEN 0
    ELSE 10 * ParseInt(SubSeq(s, 1, Len(s) - 1)) + DigitValue(s[Len(s)])

\* An exception object: its class, the parts of its message, the HTTP status
\* it carries (HTTPError) and the attempt count it names (timeout).
Err(type, text, http, n) == [type |-> type, text |-> text, http |-> http, n |-> n]

NoError == Err("none", NoText, 0, 0)

\* How a call ended; blank is the value of a call that returned nothing.
Returned(v) == [kind |-> "return", value |-> v, error |-> NoError]
Raised(e, blank) == [kind |-> "raise", value |-> blank, error |-> e]
Pending(blank) == [kind |-> "none", value |-> blank, error |-> NoError]

\* requests.Response.raise_for_status: HTTPError for 4xx and 5xx only
RaisesForStatus(code) == 400 <= code /\ code < 600

HTTPError(code) == Err("HTTPError", NoText, code, 0)
ConnectionError == Err("ConnectionError", NoText, 0, 0)
JSONDecodeError == Err("JSONDecodeError", NoText, 0, 0)

\* ------------------------------------------------------------ JSON objects
\* A nested JSON object (error, result, properties) and a top-level one.  A key
\* outside "keys" is absent, whatever its field holds.
EmptySub == [keys |-> {}, code |-> None, message |-> None, id |-> None,
             parentWarehouseId |-> None]

EmptyObj == [keys |-> {}, status |-> NoText, error |-> EmptySub,
             resourceId |-> None, result |-> EmptySub, id |-> None,
             displayName |-> None, type |-> None, properties |-> EmptySub,
             value |-> <<>>]

With(o, k, v) == [o EXCEPT ![k] = v, !.keys = @ \cup {k}]

\* ------------------------------------------- what the control plane answers
S_Succeeded == <<"S","u","c","c","e","e","d","e","d">>
S_succeeded == <<"s","u","c","c","e","e","d","e","d">>
S_SUCCEEDED == <<"S","U","C","C","E","E","D","E","D">>
S_Failed == <<"F","a","i","l","e","d">>
S_failed == <<"f","a","i","l","e","d">>
S_Running == <<"R","u","n","n","i","n","g">>
S_running == <<"r","u","n","n","i","n","g">>
S_NotStarted == <<"N","o","t","S","t","a","r","t","e","d">>
S_notstarted == <<"n","o","t","s","t","a","r","t","e","d">>
S_Undefined == <<"U","n","d","e","f","i","n","e","d">>
S_undefined == <<"u","n","d","e","f","i","n","e","d">>
S_Paused == <<"P","a","u","s","e","d">>

StatusStrings == {S_Succeeded, S_succeeded, S_SUCCEEDED, S_Failed, S_failed,
                  S_Running, S_NotStarted, S_Undefined, S_Paused}

ErrorObjects ==
    { [EmptySub EXCEPT !.keys = ks, !.code = "E1", !.message = "boom"] :
        ks \in SUBSET {"code", "message"} }

\* Bodies of a 200 answer to a status GET: an operation state with or
\* without a status, a failed one with or without an error object.
StatusPayloads ==
    {EmptyObj}
    \cup { With(EmptyObj, "status", s) : s \in StatusStrings }
    \cup { With(With(EmptyObj, "status", s), "error", e) :
             s \in {S_Failed, S_failed}, e \in ErrorObjects }

\* Bodies of a 200 answer to a /result GET.
ResultBodies ==
    { EmptyObj,
      With(EmptyObj, "resourceId", "s9"),
      With(EmptyObj, "result", [EmptySub EXCEPT !.keys = {"id"}, !.id = "s8"]) }

StatusCodes == {200, 201, 202, 204, 404, 500}

\* A response: raised = requests.get itself raised (no response); hasBody =
\* the body parses as JSON (response.json() raises otherwise).
Response(code, hasBody, json) ==
    [raised |-> FALSE, code |-> code, hasBody |-> hasBody, json |-> json]

NoResponse == [raised |-> FALSE, code |-> 0, hasBody |-> FALSE, json |-> EmptyObj]
RequestFailed == [raised |-> TRUE, code |-> 0, hasBody |-> FALSE, json |-> EmptyObj]

StatusResponses ==
    { Response(200, TRUE, b) : b \in StatusPayloads }
    \cup { Response(c, FALSE, EmptyObj) : c \in StatusCodes \ {200} }
    \cup { RequestFailed }

ResultResponses ==
    { Response(200, TRUE, b) : b \in ResultBodies }
    \cup { Response(c, FALSE, EmptyObj) : c \in {204, 404} }
    \cup { RequestFailed }

\* ------------------------------------------------ _poll_operation_status
\* What one iteration of the loop does with the answer to its status GET.
\* act: "return" | "raise" | "sleep" (sleep, next iteration) | "next" (next
\* iteration without sleeping); resultGet: a GET to {url}/result was issued.
Step(act, value, error, resultGet) ==
    [act |-> act, value |-> value, error |-> error, resultGet |-> resultGet]

OperationFailed(operation_id, operation_status) ==
    Err("Exception",
        <<"Operation", operation_id, "failed",
          Get(Get(operation_status, "error", EmptySub), "code", "Unknown"),
          Get(Get(operation_status, "error", EmptySub), "message", "Unknown error")>>,
        0, 0)

OperationTimedOut(operation_id, max_retries) ==
    Err("Exception", <<"Operation", operation_id, "timed out after", "attempts">>,
        0, max_retries)

\* lines 108-119
Completed201(rres) ==
    IF rres.raised THEN Step("raise", None, ConnectionError, TRUE)
    ELSE IF RaisesForStatus(rres.code) THEN Step("raise", None, HTTPError(rres.code), TRUE)
    ELSE IF ~rres.hasBody THEN Step("raise", None, JSONDecodeError, TRUE)
    ELSE Step("return", rres.json, NoError, TRUE)

\* lines 127-139
Succeeded(operation_status, rres) ==
    IF ~rres.raised /\ rres.code = 200 /\ rres.hasBody
    THEN Step("return", rres.json, NoError, TRUE)
    ELSE Step("return", operation_status, NoError, TRUE)

\* (mutant) "failed" falls through to the unknown-status branch
Status200FailedSleeps(resp, rres, operation_id) ==
    LET operation_status == resp.json
        status == Lower(Get(operation_status, "status", NoText))
    IN  IF status = S_succeeded THEN Succeeded(operation_status, rres)
        ELSE Step("sleep", None, NoError, FALSE)

\* (mutant) "undefined" treated as a terminal state
Status200UndefinedRaises(resp, rres, operation_id) ==
    LET operation_status == resp.json
        status == Lower(Get(operation_status, "status", NoText))
    IN  IF status = S_succeeded THEN Succeeded(operation_status, rres)
        ELSE IF status \in {S_failed, S_undefined}
             THEN Step("raise", None, OperationFailed(operation_id, operation_status), FALSE)
        ELSE Step("sleep", None, NoError, FALSE)

\* lines 121-164
Status200(resp, rres, operation_id) ==
    LET operation_status == resp.json
        status == Lower(Get(operation_status, "status", NoText))
    IN  IF RaisesForStatus(resp.code) THEN Step("raise", None, HTTPError(resp.code), FALSE)
        ELSE IF status = S_succeeded THEN Succeeded(operation_status, rres)
        ELSE IF status = S_failed
             THEN Step("raise", None, OperationFailed(operation_id, operation_status), FALSE)
        ELSE IF status \in {S_running, S_notstarted} THEN Step("sleep", None, NoError, FALSE)
        ELSE IF status = S_undefined THEN Step("sleep", None, NoError, FALSE)
        ELSE Step("sleep", None, NoError, FALSE)

\* lines 171-172
OtherStatus(resp) ==
    IF RaisesForStatus(resp.code)
    THEN Step("raise", None, HTTPError(resp.code), FALSE)
    ELSE Step("next", None, NoError, FALSE)

\* (mutant) a 202 goes on without sleeping
IterationNoSleepOn202(resp, rres, operation_id) ==
    IF resp.raised THEN Step("raise", None, ConnectionError, FALSE)
    ELSE IF resp.code = 201 THEN Completed201(rres)
    ELSE IF resp.code = 200 THEN Status200(resp, rres, operation_id)
    ELSE OtherStatus(resp)

\* lines 106-172
Iteration(resp, rres, operation_id) ==
    IF resp.raised THEN Step("raise", None, ConnectionError, FALSE)
    ELSE IF resp.code = 201 THEN Completed201(rres)
    ELSE IF resp.code = 200 THEN Status200(resp, rres, operation_id)
    ELSE IF resp.code = 202 THEN Step("sleep", None, NoError, FALSE)
    ELSE OtherStatus(resp)

\* f"{operation_url}/result"
ResultUrl(operation_url) == <<operation_url, "/result">>

\* (mutant) one iteration too many
LoopContinuesInclusive(done, max_retries) == done <= max_retries

\* range(max_retries): is there another iteration
LoopContinues(done, max_retries) == done < max_retries

NoneSeen == [c \in StatusCodes \cup {0} |-> 0]

StatusGets == seen[0] + seen[200] + seen[201] + seen[202] + seen[204] + seen[404] + seen[500]

PollIdle ==
    /\ pollPc = "idle"
    /\ poll = [operation_url |-> None, operation_id |-> None, max_retries |-> 0,
               retry_delay |-> 0]
    /\ attempt = 0
    /\ seen = NoneSeen
    /\ sleeps = 0
    /\ slept = 0
    /\ resultGets = 0
    /\ resultUrl = NoText
    /\ lastResp = NoResponse
    /\ lastResult = NoResponse
    /\ pollOutcome = Pending(EmptyObj)

\* Entry of _poll_operation_status(operation_url, operation_id, max_retries, retry_delay)
PollEnter(operation_url, operation_id, max_retries, retry_delay) ==
    /\ pollPc' = "loop"
    /\ poll' = [operation_url |-> operation_url, operation_id |-> operation_id,
                max_retries |-> max_retries, retry_delay |-> retry_delay]
    /\ attempt' = 0
    /\ seen' = NoneSeen
    /\ sleeps' = 0
    /\ slept' = 0
    /\ resultGets' = 0
    /\ resultUrl' = NoText
    /\ lastResp' = NoResponse
    /\ lastResult' = NoResponse
    /\ pollOutcome' = Pending(EmptyObj)

\* One iteration of the for loop: the status GET, the dispatch on its answer,
\* the /result GET and the sleep where the branch has them.
\* The effect of an iteration that did d after the answers resp and rres.
PollApply(resp, rres, d) ==
    /\ attempt' = attempt + 1
    /\ seen' = [seen EXCEPT ![resp.code] = @ + 1]
    /\ lastResp' = resp
    /\ resultGets' = IF d.resultGet THEN resultGets + 1 ELSE resultGets
    /\ resultUrl' = IF d.resultGet THEN ResultUrl(poll.operation_url) ELSE resultUrl
    /\ lastResult' = IF d.resultGet THEN rres ELSE lastResult
    /\ sleeps' = IF d.act = "sleep" THEN sleeps + 1 ELSE sleeps
    /\ slept' = IF d.act = "sleep" THEN slept + poll.retry_delay ELSE slept
    /\ pollOutcome' = CASE d.act = "return" -> Returned(d.value)
                        [] d.act = "raise" -> Raised(d.error, EmptyObj)
                        [] OTHER -> pollOutcome
    /\ pollPc' = IF d.act \in {"return", "raise"} THEN "done" ELSE "loop"

\* One iteration of the for loop: the status GET, the dispatch on its answer,
\* the /result GET and the sleep where the branch has them.
PollIterate ==
    /\ pollPc = "loop"
    /\ LoopContinues(attempt, poll.max_retries)
    /\ \E resp \in StatusResponses :
         LET d0 == Iteration(resp, NoResponse, poll.operation_id) IN
         IF d0.resultGet
         THEN \E rres \in ResultResponses :
                PollApply(resp, rres, Iteration(resp, rres, poll.operation_id))
         ELSE PollApply(resp, NoResponse, d0)
    /\ UNCHANGED poll

\* line 174: the loop ran out
PollExhausted ==
    /\ pollPc = "loop"
    /\ ~LoopContinues(attempt, poll.max_retries)
    /\ pollOutcome' = Raised(OperationTimedOut(poll.operation_id, poll.max_retries), EmptyObj)
    /\ pollPc' = "done"
    /\ UNCHANGED <<poll, attempt, seen, sleeps, slept, resultGets, resultUrl,
                   lastResp, lastResult>>


\* ------------------------------ add_query._execute_query_with_retry
\* The classes of the exceptions cursor.execute raises: driver errors, an
\* error internal to dbt, and some other exception.
ErrorClasses ==
    {"OperationalError", "InterfaceError", "ProgrammingError", "InternalError",
     "DbtRuntimeError", "KeyError"}

RetryLimits == 0..MaxRetryLimit

\* What cursor.execute does: it returns, or raises an exception of some
\* class; n tells the exceptions of successive executions apart.
ExecOk == [ok |-> TRUE, error |-> NoError]
ExecRaises(class, n) == [ok |-> FALSE, error |-> Err(class, NoText, 0, n)]

\* The classes an exception of class c is an instance of: the driver classes
\* follow the DB-API hierarchy (Error > InterfaceError, Error > DatabaseError
\* > OperationalError, ProgrammingError, InternalError); DbtDatabaseError is
\* a DbtRuntimeError.
Bases(c) ==
    IF c \in {"OperationalError", "ProgrammingError", "InternalError"}
    THEN {c, "DatabaseError", "Error", "Exception"}
    ELSE IF c \in {"InterfaceError", "DatabaseError"} THEN {c, "Error", "Exception"}
    ELSE IF c = "DbtDatabaseError" THEN {c, "DbtRuntimeError", "Exception"}
    ELSE {c, "Exception"}

\* isinstance(e, class)
IsInstance(e, class) == class \in Bases(e.type)

\* except classes as e
Catches(e, classes) == \E class \in classes : IsInstance(e, class)

\* except retryable_exceptions as e
IsRetryable(e, retryable_exceptions) == Catches(e, retryable_exceptions)

\* (mutant) the limit test off by one
LimitHitOffByOne(attemptNo, retry_limit) == attemptNo > retry_limit

\* if attempt >= retry_limit: raise e
LimitHit(attemptNo, retry_limit) == attemptNo >= retry_limit

QueryIdle ==
    /\ qPc = "idle"
    /\ qArgs = [retry_limit |-> 0, retryable_exceptions |-> {}]
    /\ qAttempt = 0
    /\ qExecs = 0
    /\ qSleeps = 0
    /\ qLastExec = ExecOk
    /\ qOutcome = Pending(None)

\* _execute_query_with_retry(..., retryable_exceptions, retry_limit, attempt=1)
QueryCall ==
    /\ qPc = "idle"
    /\ \E limit \in RetryLimits, retryable \in SUBSET ErrorClasses :
         qArgs' = [retry_limit |-> limit, retryable_exceptions |-> retryable]
    /\ qAttempt' = 1
    /\ qPc' = "try"
    /\ UNCHANGED <<qExecs, qSleeps, qLastExec, qOutcome, pollVars, orchVars, tokVars, openVars, backVars, aqVars>>

\* One activation of the routine: cursor.execute, and on a retryable error
\* either raise (limit hit) or sleep one second and recurse with attempt + 1.
QueryAttempt ==
    /\ qPc = "try"
    /\ \E r \in {ExecOk} \cup { ExecRaises(c, qExecs + 1) : c \in ErrorClasses } :
         /\ qExecs' = qExecs + 1
         /\ qLastExec' = r
         /\ IF r.ok
            THEN /\ qOutcome' = Returned(None)
                 /\ qPc' = "done"
                 /\ UNCHANGED <<qAttempt, qSleeps>>
            ELSE IF ~IsRetryable(r.error, qArgs.retryable_exceptions)
            THEN /\ qOutcome' = Raised(r.error, None)
                 /\ qPc' = "done"
                 /\ UNCHANGED <<qAttempt, qSleeps>>
            ELSE IF LimitHit(qAttempt, qArgs.retry_limit)
            THEN /\ qOutcome' = Raised(r.error, None)
                 /\ qPc' = "done"
                 /\ UNCHANGED <<qAttempt, qSleeps>>
            ELSE /\ qSleeps' = qSleeps + 1
                 /\ qAttempt' = qAttempt + 1
                 /\ UNCHANGED <<qPc, qOutcome>>
    /\ UNCHANGED <<qArgs, pollVars, orchVars, tokVars, openVars, backVars, aqVars>>


\* ---------------------------------------------- WarehouseSnapshotManager
\* The arguments of orchestrate_snapshot_management.
WarehouseName == "wh"
SnapshotName == "snap"

\* bool(x) of an optional string
Truthy(x) == x # None /\ x # ""

\* a or b
Or(a, b) == IF Truthy(a) THEN a ELSE b

\* All sequences over S of length at most n.
SeqsUpTo(S, n) == UNION { [1..k -> S] : k \in 0..n }

WarehouseIds == <<"w1", "w2", "w3">>
SnapshotIds == <<"s1", "s2", "s3">>

\* A listing gives each of its items an id of its own.
WithIds(items, ids) == [i \in 1..Len(items) |-> With(items[i], "id", ids[i])]

WarehouseItems ==
    { With(With(EmptyObj, "displayName", n), "type", t) :
        n \in {WarehouseName, "other"}, t \in {"Warehouse", "Lakehouse"} }

SnapshotItems ==
    { With(With(With(EmptyObj, "displayName", n), "type", t), "properties",
           [EmptySub EXCEPT !.keys = {"parentWarehouseId"}, !.parentWarehouseId = w]) :
        n \in {SnapshotName, "other"}, t \in {"WarehouseSnapshot", "Warehouse"},
        w \in {"w1", "w2"} }

\* Answers to a listing GET: a page of items, a body without "value", an
\* HTTP error, or no answer at all.
ListResponses(items, ids, n) ==
    { Response(200, TRUE, With(EmptyObj, "value", WithIds(l, ids))) : l \in SeqsUpTo(items, n) }
    \cup { Response(200, TRUE, EmptyObj), Response(404, FALSE, EmptyObj),
           Response(500, FALSE, EmptyObj), RequestFailed }

\* What a call handed back: the keys of the dict returned, the values of the
\* normalized keys, and the raw body (the dict itself, or its "operation").
ResultDict(keys, snapshot_id, displayName, operation_type, wid, body) ==
    [keys |-> keys, snapshot_id |-> snapshot_id, displayName |-> displayName,
     operation_type |-> operation_type, warehouse_id |-> wid, body |-> body]

NormalizedKeys == {"snapshot_id", "displayName", "operation_type", "operation", "warehouse_id"}

\* return result / return operation_result: the body as it came
Raw(obj) == ResultDict(obj.keys, None, obj.displayName, None, None, obj)

EmptyResult == Raw(EmptyObj)

\* list_warehouses / list_warehouse_snapshots, lines 26-48 and 68-92
Listing(resp) ==
    IF resp.raised THEN [ok |-> FALSE, error |-> ConnectionError, list |-> <<>>]
    ELSE IF RaisesForStatus(resp.code)
         THEN [ok |-> FALSE, error |-> HTTPError(resp.code), list |-> <<>>]
    ELSE IF ~resp.hasBody THEN [ok |-> FALSE, error |-> JSONDecodeError, list |-> <<>>]
    ELSE [ok |-> TRUE, error |-> NoError, list |-> Get(resp.json, "value", <<>>)]

\* (mutant) the type of the item is not looked at
WarehouseMatchesAnyType(warehouse, warehouse_name) ==
    Get(warehouse, "displayName", None) = warehouse_name

\* the condition of lines 56-59
WarehouseMatches(warehouse, warehouse_name) ==
    /\ Get(warehouse, "displayName", None) = warehouse_name
    /\ Get(warehouse, "type", None) = "Warehouse"

\* get_warehouse_id_by_name, lines 50-66: the id of the first match
GetWarehouseIdByName(list, warehouse_name) ==
    IF \E i \in 1..Len(list) : WarehouseMatches(list[i], warehouse_name)
    THEN LET first == CHOOSE i \in 1..Len(list) :
                        /\ WarehouseMatches(list[i], warehouse_name)
                        /\ \A j \in 1..(i - 1) : ~WarehouseMatches(list[j], warehouse_name)
         IN  Get(list[first], "id", None)
    ELSE None

\* (mutant) the name of the snapshot is not looked at
SnapshotMatchesAnyName(snapshot, wid, snapshot_name) ==
    /\ Get(Get(snapshot, "properties", EmptySub), "parentWarehouseId", None) = wid
    /\ Get(snapshot, "type", None) = "WarehouseSnapshot"

\* the condition of lines 321-325
SnapshotMatches(snapshot, wid, snapshot_name) ==
    /\ Get(Get(snapshot, "properties", EmptySub), "parentWarehouseId", None) = wid
    /\ Get(snapshot, "displayName", None) = snapshot_name
    /\ Get(snapshot, "type", None) = "WarehouseSnapshot"

\* find_snapshot_by_warehouse_and_name, lines 311-340: the id of the first match
FindSnapshot(list, wid, snapshot_name) ==
    IF \E i \in 1..Len(list) : SnapshotMatches(list[i], wid, snapshot_name)
    THEN LET first == CHOOSE i \in 1..Len(list) :
                        /\ SnapshotMatches(list[i], wid, snapshot_name)
                        /\ \A j \in 1..(i - 1) : ~SnapshotMatches(list[j], wid, snapshot_name)
         IN  Get(list[first], "id", None)
    ELSE None

\* lines 379-394: the snapshot to update, None to create
ExistingSnapshotId(list, wid, snapshot_name) ==
    IF Len(list) > 0 THEN FindSnapshot(list, wid, snapshot_name) ELSE None

\* Answers to the PATCH of snapshot_id.
UpdateResponses(snapshot_id) ==
    { Response(200, TRUE,
               With(With(With(With(EmptyObj, "id", snapshot_id), "displayName", SnapshotName),
                         "type", "WarehouseSnapshot"), "properties",
                    [EmptySub EXCEPT !.keys = {"parentWarehouseId"}, !.parentWarehouseId = "w1"])),
      Response(200, TRUE, EmptyObj),
      Response(204, FALSE, EmptyObj), Response(404, FALSE, EmptyObj), RequestFailed }

\* update_warehouse_snapshot, lines 283-305
Update(snapshot_id, resp) ==
    IF resp.raised THEN Raised(ConnectionError, EmptyResult)
    ELSE IF RaisesForStatus(resp.code) THEN Raised(HTTPError(resp.code), EmptyResult)
    ELSE IF ~resp.hasBody THEN Raised(JSONDecodeError, EmptyResult)
    ELSE LET result == resp.json IN
         Returned(ResultDict(NormalizedKeys,
                             Get(result, "id", snapshot_id),
                             Get(result, "displayName", None),
                             "update",
                             Get(Get(result, "properties", EmptySub), "parentWarehouseId", None),
                             result))

\* Response headers of the POST.
Headers(keys, location, operation_id, retry_after) ==
    [k \in {"keys", "Location", "x-ms-operation-id", "Retry-After"} |->
        CASE k = "keys" -> keys
          [] k = "Location" -> location
          [] k = "x-ms-operation-id" -> operation_id
          [] k = "Retry-After" -> retry_after]

NoHeaders == Headers({}, None, None, NoText)

PostResponse(code, hasBody, json, headers) ==
    [raised |-> FALSE, code |-> code, hasBody |-> hasBody, json |-> json,
     headers |-> headers]

NoPost == PostResponse(0, FALSE, EmptyObj, NoHeaders)
PostFailed == [NoPost EXCEPT !.raised = TRUE]

\* Headers of a 202: each of the three may be missing.
AcceptedHeaders ==
    { Headers(ks,
              IF "Location" \in ks THEN "https://loc/op1" ELSE None,
              IF "x-ms-operation-id" \in ks THEN "op1" ELSE None,
              IF "Retry-After" \in ks THEN ra ELSE NoText) :
        ks \in SUBSET {"Location", "x-ms-operation-id", "Retry-After"},
        ra \in {<<"1", "0">>} }

\* Answers to the POST creating snapshot_name.
PostResponses(snapshot_name) ==
    { PostResponse(201, TRUE,
                   With(With(With(EmptyObj, "id", "s7"), "displayName", snapshot_name),
                        "type", "WarehouseSnapshot"), NoHeaders) }
    \cup { PostResponse(202, FALSE, EmptyObj, h) : h \in AcceptedHeaders }
    \cup { PostResponse(c, FALSE, EmptyObj, NoHeaders) : c \in {200, 204, 400, 500} }
    \cup { PostFailed }

\* int(response.headers.get("Retry-After", 30))
RetryAfter(headers) ==
    IF "Retry-After" \in headers.keys THEN ParseInt(headers["Retry-After"])
    ELSE DefaultRetryAfter

\* (mutant) the raise after raise_for_status is missing: another 2xx returns
CreateReturnsOnOther2xx(resp) ==
    IF resp.raised
    THEN [act |-> "raise", outcome |-> Raised(ConnectionError, EmptyResult)]
    ELSE IF resp.code = 201
    THEN [act |-> "return", outcome |-> Returned(Raw(resp.json))]
    ELSE IF resp.code = 202
    THEN IF ~Truthy(Get(resp.headers, "Location", None))
         THEN [act |-> "raise",
               outcome |-> Raised(Err("Exception", <<"202 response received but no Location header found">>, 0, 0),
                                  EmptyResult)]
         ELSE [act |-> "poll", outcome |-> Pending(EmptyResult)]
    ELSE IF RaisesForStatus(resp.code)
    THEN [act |-> "raise", outcome |-> Raised(HTTPError(resp.code), EmptyResult)]
    ELSE [act |-> "return", outcome |-> Returned(Raw(resp.json))]

\* create_warehouse_snapshot up to the answer to its POST, lines 200-249.
\* act: "return" | "raise" | "poll" (hand location and operation id to the poller)
Create(resp) ==
    IF resp.raised
    THEN [act |-> "raise", outcome |-> Raised(ConnectionError, EmptyResult)]
    ELSE IF resp.code = 201
    THEN [act |-> "return", outcome |-> Returned(Raw(resp.json))]
    ELSE IF resp.code = 202
    THEN IF ~Truthy(Get(resp.headers, "Location", None))
         THEN [act |-> "raise",
               outcome |-> Raised(Err("Exception", <<"202 response received but no Location header found">>, 0, 0),
                                  EmptyResult)]
         ELSE [act |-> "poll", outcome |-> Pending(EmptyResult)]
    ELSE IF RaisesForStatus(resp.code)
    THEN [act |-> "raise", outcome |-> Raised(HTTPError(resp.code), EmptyResult)]
    ELSE [act |-> "raise",
          outcome |-> Raised(Err("Exception", <<"Unexpected response status">>, resp.code, 0),
                             EmptyResult)]

\* create_warehouse_snapshot after the poller, lines 224-244
CreateAfterPoll(polled, wid, snapshot_name) ==
    IF polled.kind = "raise" THEN Raised(polled.error, EmptyResult)
    ELSE LET operation_result == polled.value
             snapshot_id == Or(Get(operation_result, "resourceId", None),
                               Get(Get(operation_result, "result", EmptySub), "id", None))
         IN  IF Truthy(snapshot_id)
             THEN Returned(ResultDict(NormalizedKeys, snapshot_id, snapshot_name,
                                      "create", wid, operation_result))
             ELSE Returned(Raw(operation_result))

NoRequests == [listWarehouses |-> 0, listSnapshots |-> 0, patch |-> 0, post |-> 0,
               patched |-> None]

\* The mutating request a finished call made.
OpOf(r) == IF r.patch > 0 THEN "PATCH" ELSE IF r.post > 0 THEN "POST" ELSE "none"

OrchIdle ==
    /\ orchPc = "idle"
    /\ prevOp = "none"
    /\ warehouse_list = <<>>
    /\ warehouse_id = None
    /\ warehouse_snapshots = <<>>
    /\ reqs = NoRequests
    /\ lastPost = NoPost
    /\ orchOutcome = Pending(EmptyResult)

\* The call ends: its frame, and with it its locals, is gone.
OrchEnd(outcome) ==
    /\ orchPc' = "done"
    /\ orchOutcome' = outcome
    /\ warehouse_list' = <<>>
    /\ warehouse_id' = None
    /\ warehouse_snapshots' = <<>>

PollUntouched == UNCHANGED pollVars

PollForgotten ==
    /\ pollPc' = "idle"
    /\ poll' = [operation_url |-> None, operation_id |-> None, max_retries |-> 0,
                retry_delay |-> 0]
    /\ attempt' = 0
    /\ seen' = NoneSeen
    /\ sleeps' = 0
    /\ slept' = 0
    /\ resultGets' = 0
    /\ resultUrl' = NoText
    /\ lastResp' = NoResponse
    /\ lastResult' = NoResponse
    /\ pollOutcome' = Pending(EmptyObj)

\* orchestrate_snapshot_management(WarehouseName, SnapshotName) is called,
\* for the first time or again, and lists the warehouses (line 367).
OrchListWarehouses ==
    /\ orchPc \in {"idle", "done"}
    /\ prevOp' = IF orchPc = "done" THEN OpOf(reqs) ELSE prevOp
    /\ reqs' = [NoRequests EXCEPT !.listWarehouses = 1]
    /\ lastPost' = NoPost
    /\ PollForgotten
    /\ \E resp \in ListResponses(WarehouseItems, WarehouseIds, MaxWarehouses) :
         LET l == Listing(resp) IN
         IF l.ok
         THEN /\ warehouse_list' = l.list
              /\ orchPc' = "gotWarehouses"
              /\ orchOutcome' = Pending(EmptyResult)
              /\ UNCHANGED <<warehouse_id, warehouse_snapshots>>
         ELSE OrchEnd(Raised(l.error, EmptyResult))
    /\ UNCHANGED <<qVars, tokVars, openVars, backVars, aqVars>>

\* Lines 368-377: the warehouse is looked up; when it is found the
\* snapshots are listed.  warehouse_list is not read afterwards.
OrchListSnapshots ==
    /\ orchPc = "gotWarehouses"
    /\ LET wid == GetWarehouseIdByName(warehouse_list, WarehouseName) IN
       IF ~Truthy(wid)
       THEN /\ OrchEnd(Raised(Err("ValueError", <<"Warehouse", WarehouseName, "not found">>, 0, 0),
                              EmptyResult))
            /\ UNCHANGED reqs
       ELSE /\ reqs' = [reqs EXCEPT !.listSnapshots = @ + 1]
            /\ \E resp \in ListResponses(SnapshotItems, SnapshotIds, MaxSnapshots) :
                 LET l == Listing(resp) IN
                 IF l.ok
                 THEN /\ warehouse_snapshots' = l.list
                      /\ warehouse_id' = wid
                      /\ warehouse_list' = <<>>
                      /\ orchPc' = "gotSnapshots"
                      /\ UNCHANGED orchOutcome
                 ELSE OrchEnd(Raised(l.error, EmptyResult))
    /\ PollUntouched
    /\ UNCHANGED <<qVars, tokVars, openVars, backVars, aqVars, prevOp, lastPost>>

\* (mutant) the snapshot that was updated is created as well
OrchUpdateThenCreate ==
    /\ orchPc = "gotSnapshots"
    /\ LET existing_snapshot_id ==
             ExistingSnapshotId(warehouse_snapshots, warehouse_id, SnapshotName) IN
       /\ Truthy(existing_snapshot_id)
       /\ reqs' = [reqs EXCEPT !.patch = @ + 1, !.post = @ + 1,
                               !.patched = existing_snapshot_id]
       /\ \E resp \in UpdateResponses(existing_snapshot_id) :
            OrchEnd(Update(existing_snapshot_id, resp))
    /\ PollUntouched
    /\ UNCHANGED <<qVars, tokVars, openVars, backVars, aqVars, prevOp, lastPost>>

\* Lines 379-385: an existing snapshot is found and updated with a PATCH.
OrchUpdate ==
    /\ orchPc = "gotSnapshots"
    /\ LET existing_snapshot_id ==
             ExistingSnapshotId(warehouse_snapshots, warehouse_id, SnapshotName) IN
       /\ Truthy(existing_snapshot_id)
       /\ reqs' = [reqs EXCEPT !.patch = @ + 1, !.patched = existing_snapshot_id]
       /\ \E resp \in UpdateResponses(existing_snapshot_id) :
            OrchEnd(Update(existing_snapshot_id, resp))
    /\ PollUntouched
    /\ UNCHANGED <<qVars, tokVars, openVars, backVars, aqVars, prevOp, lastPost>>

\* Lines 386-394: no existing snapshot is found and one is created with a
\* POST; a 202 with a Location enters the poller.  warehouse_snapshots is
\* not read afterwards.
OrchCreate ==
    /\ orchPc = "gotSnapshots"
    /\ ~Truthy(ExistingSnapshotId(warehouse_snapshots, warehouse_id, SnapshotName))
    /\ reqs' = [reqs EXCEPT !.post = @ + 1]
    /\ \E resp \in PostResponses(SnapshotName) :
         LET c == Create(resp) IN
         /\ lastPost' = resp
         /\ IF c.act = "poll"
            THEN /\ PollEnter(resp.headers["Location"],
                              Get(resp.headers, "x-ms-operation-id", None),
                              DefaultMaxRetries, RetryAfter(resp.headers))
                 /\ orchPc' = "polling"
                 /\ warehouse_snapshots' = <<>>
                 /\ UNCHANGED <<warehouse_list, warehouse_id, orchOutcome>>
            ELSE /\ OrchEnd(c.outcome)
                 /\ PollUntouched
    /\ UNCHANGED <<qVars, tokVars, openVars, backVars, aqVars, prevOp>>

\* The poller runs inside create_warehouse_snapshot (line 224).
OrchPollLoop ==
    /\ orchPc = "polling"
    /\ PollIterate
    /\ UNCHANGED <<qVars, orchVars, tokVars, openVars, backVars, aqVars>>

OrchPollTimeout ==
    /\ orchPc = "polling"
    /\ PollExhausted
    /\ UNCHANGED <<qVars, orchVars, tokVars, openVars, backVars, aqVars>>

\* The poller is back: lines 228-244, or its exception passes through.
OrchCreateFinish ==
    /\ orchPc = "polling"
    /\ pollPc = "done"
    /\ OrchEnd(CreateAfterPoll(pollOutcome, warehouse_id, SnapshotName))
    /\ PollUntouched
    /\ UNCHANGED <<qVars, tokVars, openVars, backVars, aqVars, prevOp, reqs, lastPost>>

\* ------------------------------------------------ get_token_attrs_before
Threads == {"t1", "t2"}

A_cli == <<"c","l","i">>
A_CLI == <<"C","L","I">>
A_auto == <<"a","u","t","o">>
A_environment == <<"e","n","v","i","r","o","n","m","e","n","t">>
A_synapsespark == <<"s","y","n","a","p","s","e","s","p","a","r","k">>
A_fabricnotebook == <<"f","a","b","r","i","c","n","o","t","e","b","o","o","k">>
A_activedirectoryaccesstoken ==
    <<"a","c","t","i","v","e","d","i","r","e","c","t","o","r","y",
      "a","c","c","e","s","s","t","o","k","e","n">>
A_ActiveDirectoryAccessToken ==
    <<"A","c","t","i","v","e","D","i","r","e","c","t","o","r","y",
      "A","c","c","e","s","s","T","o","k","e","n">>
A_ActiveDirectoryServicePrincipal ==
    <<"A","c","t","i","v","e","D","i","r","e","c","t","o","r","y",
      "S","e","r","v","i","c","e","P","r","i","n","c","i","p","a","l">>

\* the keys of AZURE_AUTH_FUNCTIONS
AZURE_AUTH_FUNCTIONS == {A_cli, A_auto, A_environment, A_synapsespark, A_fabricnotebook}

\* AccessToken(token, expires_on); NoToken is the None of _TOKEN.
AccessToken(token, expires_on) == [token |-> token, expires_on |-> expires_on]
NoToken == AccessToken(None, 0)

\* The fields of FabricCredentials the token getter reads; nulls names the
\* fields that are None.
TokenCredentials(authentication, access_token, access_token_expires_on, nulls) ==
    [authentication |-> authentication, access_token |-> access_token,
     access_token_expires_on |-> access_token_expires_on, nulls |-> nulls]

NoCredentials == TokenCredentials(NoText, None, 0, {"access_token"})

\* The profiles the calls are made with.
CredentialsGiven ==
    { TokenCredentials(a, None, 0, {"access_token"}) :
        a \in {A_cli, A_CLI, A_fabricnotebook, A_ActiveDirectoryServicePrincipal} }
    \cup { TokenCredentials(A_ActiveDirectoryAccessToken,
                            IF "access_token" \in n THEN None ELSE "static",
                            IF "access_token_expires_on" \in n THEN 0 ELSE e, n) :
             n \in SUBSET {"access_token", "access_token_expires_on"}, e \in {0, 5000} }

Backends == {"pyodbc", "mssql-python"}

\* (mutant) every backend is handed token bytes
RequiresTokenBytesAlways(backend) == TRUE

\* DriverBackend.requires_token_bytes
RequiresTokenBytes(backend) == backend = "pyodbc"

\* Tokens the acquisition strategies hand out, in the order of acquisition.
ProviderTokens == <<"p1", "p2", "p3", "p4", "p5", "p6", "p7", "p8">>

\* Seconds an identity provider's token is still valid for when handed out;
\* the providers hand out no token that is within the safety margin.
ProviderLifetimes == {MAX_REMAINING_TIME + 1, 3600}

\* AZURE_AUTH_FUNCTIONS[authentication](credentials, scope): the tokens the
\* strategy may return for the n-th acquisition at time t.
Acquired(authentication, n, t) ==
    IF authentication \in {A_synapsespark, A_fabricnotebook}
    THEN { AccessToken(ProviderTokens[n], t + NotebookTokenLifetime) }
    ELSE { AccessToken(ProviderTokens[n], t + l) : l \in ProviderLifetimes }

\* (mutant) the safety margin is left out of the test
NeedsRefreshAtExpiry(token, t) == token = NoToken \/ token.expires_on - t < 0

\* line 254: not _TOKEN or (_TOKEN.expires_on - time.time() < MAX_REMAINING_TIME)
NeedsRefresh(token, t) == token = NoToken \/ token.expires_on - t < MAX_REMAINING_TIME

\* (mutant) a zero expiry is taken as it is
StaticTokenZeroKept(credentials, t) ==
    AccessToken(credentials.access_token, credentials.access_token_expires_on)

\* lines 265-272
StaticToken(credentials, t) ==
    AccessToken(credentials.access_token,
                IF credentials.access_token_expires_on = 0
                THEN t + NotebookTokenLifetime
                ELSE credentials.access_token_expires_on)

\* The attribute map handed to the driver: empty, or the one attribute
\* sql_copt_ss_access_token holding the bytes of token.token; "of" keeps
\* the AccessToken the bytes were made from.
Attrs(keys, token) == [keys |-> keys, token |-> token.token, of |-> token]
EmptyAttrs == Attrs({}, NoToken)
TokenAttrs(token) == Attrs({sql_copt_ss_access_token}, token)

\* A call in progress: where it is, the token and the time it read at its
\* test, the token it holds before assigning it to _TOKEN, the number of
\* acquisitions it made, and how it ended.
TokenCallState(pc, sawToken, sawAt, local, fetches, out) ==
    [pc |-> pc, sawToken |-> sawToken, sawAt |-> sawAt, local |-> local,
     fetches |-> fetches, out |-> out]

NoTokenCall == TokenCallState("idle", NoToken, 0, NoToken, 0, Pending(EmptyAttrs))

\* The profile of the process: every call is made with its credentials and
\* with the backend resolved for it.
Profile(credentials, backend) == [credentials |-> credentials, backend |-> backend]
NoProfile == Profile(NoCredentials, "none")

TokenIdle ==
    /\ now = 0
    /\ ticks = 0
    /\ _TOKEN = NoToken
    /\ acquisitions = 0
    /\ tokenCalls = 0
    /\ profile = NoProfile
    /\ tk = [t \in Threads |-> NoTokenCall]

\* get_token_attrs_before(credentials, backend) up to its first access to
\* _TOKEN that another thread can interleave with: lines 246-254 and 260-272.
TokenCall(t, credentials, backend) ==
    LET mode == Lower(credentials.authentication)
        begun == TokenCallState("return", _TOKEN, now, NoToken, 0, Pending(EmptyAttrs))
    IN
    /\ tk[t].pc \in {"idle", "done"}
    /\ tokenCalls < MaxTokenCalls
    /\ tokenCalls' = tokenCalls + 1
    /\ profile' = Profile(credentials, backend)
    /\ tk' = [tk EXCEPT ![t] =
         IF ~RequiresTokenBytes(backend)
         THEN [begun EXCEPT !.pc = "done", !.out = Returned(EmptyAttrs)]
         ELSE IF mode \in AZURE_AUTH_FUNCTIONS
         THEN IF NeedsRefresh(_TOKEN, now) THEN [begun EXCEPT !.pc = "fetch"] ELSE begun
         ELSE IF mode = A_activedirectoryaccesstoken
         THEN IF credentials.nulls # {}
              THEN [begun EXCEPT !.pc = "done",
                                 !.out = Raised(Err("ValueError", NoText, 0, 0), EmptyAttrs)]
              ELSE [begun EXCEPT !.pc = "assign", !.local = StaticToken(credentials, now)]
         ELSE [begun EXCEPT !.pc = "done", !.out = Returned(EmptyAttrs)]]
    /\ UNCHANGED <<now, ticks, _TOKEN, acquisitions>>

\* lines 255-257: the acquisition strategy is called; it hands out a token
\* or raises.
TokenFetch(t) ==
    /\ tk[t].pc = "fetch"
    /\ acquisitions' = acquisitions + 1
    /\ \/ \E token \in Acquired(Lower(profile.credentials.authentication), acquisitions + 1, now) :
            tk' = [tk EXCEPT ![t].pc = "assign", ![t].local = token, ![t].fetches = @ + 1]
       \/ tk' = [tk EXCEPT ![t].pc = "done", ![t].fetches = @ + 1,
                           ![t].out = Raised(Err("ClientAuthenticationError", NoText, 0, 0),
                                             EmptyAttrs)]
    /\ UNCHANGED <<now, ticks, _TOKEN, tokenCalls, profile>>

\* _TOKEN = ...: the global is assigned (lines 255 and 265)
TokenAssign(t) ==
    /\ tk[t].pc = "assign"
    /\ _TOKEN' = tk[t].local
    /\ tk' = [tk EXCEPT ![t].pc = "return"]
    /\ UNCHANGED <<now, ticks, acquisitions, tokenCalls, profile>>

\* lines 258 and 273: the global is read again for the attribute map
TokenReturn(t) ==
    /\ tk[t].pc = "return"
    /\ tk' = [tk EXCEPT ![t].pc = "done", ![t].local = NoToken,
                        ![t].out = Returned(TokenAttrs(_TOKEN))]
    /\ UNCHANGED <<now, ticks, _TOKEN, acquisitions, tokenCalls, profile>>

\* Seconds by which time.time() is seen to advance.
ClockSteps == {1, 4199}

\* Time passes.
Tick ==
    /\ ticks < MaxTicks
    /\ ticks' = ticks + 1
    /\ \E d \in ClockSteps : now' = now + d
    /\ UNCHANGED <<_TOKEN, acquisitions, tokenCalls, profile, tk>>

\* threading.Lock
\* (mutant) the lock does not exclude
LockFreeAlways(lock) == TRUE

\* threading.Lock: it can be acquired when no thread holds it
LockFree(lock) == lock = "free"

\* ------------------------------------------------------- driver_backend
DEFAULT_BACKEND == "auto"
VALID_BACKENDS == {"auto", "mssql-python", "pyodbc"}

\* A backend instance: the name of its class attribute and an id that tells
\* one instance from another.  NoBackend is None.
Backend(name, id) == [name |-> name, id |-> id]
NoBackend == Backend("none", 0)

\* The interpreter the process runs in: whether sys.version_info >= (3, 10),
\* whether "import mssql_python" and "import pyodbc" succeed, and the value
\* of the environment variable DBT_FABRIC_DRIVER_BACKEND (None when unset).
Runtime(started, python310, mssql_python, pyodbc, env) ==
    [started |-> started, python310 |-> python310, mssql_python |-> mssql_python,
     pyodbc |-> pyodbc, env |-> env]

NoRuntime == Runtime(FALSE, TRUE, TRUE, TRUE, None)

Runtimes ==
    { Runtime(TRUE, v, m, p, e) :
        v \in BOOLEAN, m \in BOOLEAN, p \in BOOLEAN, e \in {None, "", "pyodbc", "odbc"} }

\* The strings given as a preference, and the values of the profile field
\* driver_backend.
Preferences == {"auto", "mssql-python", "pyodbc", "odbc"}
Settings == Preferences \cup {None, ""}

ImportError == Err("ImportError", NoText, 0, 0)
ValueError == Err("ValueError", NoText, 0, 0)

\* PyodbcBackend(): __init__ imports pyodbc
PyodbcBackend(rt, id) ==
    IF rt.pyodbc THEN Returned(Backend("pyodbc", id)) ELSE Raised(ImportError, NoBackend)

\* MssqlPythonBackend(): __init__ imports mssql_python
MssqlPythonBackend(rt, id) ==
    IF rt.mssql_python THEN Returned(Backend("mssql-python", id))
    ELSE Raised(ImportError, NoBackend)

\* (mutant) an explicit preference that cannot be loaded falls back
GetDriverBackendFallsBack(preferred, rt, id) ==
    IF preferred \notin VALID_BACKENDS THEN Raised(ValueError, NoBackend)
    ELSE IF preferred = "pyodbc" THEN PyodbcBackend(rt, id)
    ELSE IF rt.python310 /\ rt.mssql_python THEN MssqlPythonBackend(rt, id)
    ELSE PyodbcBackend(rt, id)

\* get_driver_backend(preferred); id is the id of the instance it constructs
GetDriverBackend(preferred, rt, id) ==
    IF preferred \notin VALID_BACKENDS THEN Raised(ValueError, NoBackend)
    ELSE IF preferred = "pyodbc" THEN PyodbcBackend(rt, id)
    ELSE IF preferred = "mssql-python" THEN MssqlPythonBackend(rt, id)
    ELSE IF ~rt.python310 THEN PyodbcBackend(rt, id)
    ELSE LET backend == MssqlPythonBackend(rt, id)
         IN  IF backend.kind = "raise" /\ backend.error.type = "ImportError"
             THEN PyodbcBackend(rt, id)
             ELSE backend

\* get_effective_driver_backend(driver_backend_setting)
GetEffectiveDriverBackend(driver_backend_setting, rt) ==
    LET env_override == rt.env
    IN  IF Truthy(env_override)
        THEN IF env_override \notin VALID_BACKENDS
             THEN Raised(ValueError, None)
             ELSE Returned(env_override)
        ELSE Returned(Or(driver_backend_setting, DEFAULT_BACKEND))

\* (mutant) the cache is not tested for the preference it was filled for
CacheMissIgnoresPreference(active, active_preference, preferred) == active = NoBackend

\* line 423: _active_backend is None or _active_backend_preference != preferred
CacheMiss(active, active_preference, preferred) ==
    active = NoBackend \/ active_preference # preferred

\* get_cached_driver_backend(preferred) on the cache <<active, active_preference>>:
\* whether get_driver_backend was called, how the call ended and the cache
\* it leaves.
GetCachedDriverBackend(preferred, rt, active, active_preference, id) ==
    IF CacheMiss(active, active_preference, preferred)
    THEN LET made == GetDriverBackend(preferred, rt, id)
         IN  IF made.kind = "return"
             THEN [resolved |-> TRUE, out |-> made, active |-> made.value,
                   preference |-> preferred]
             ELSE [resolved |-> TRUE, out |-> made, active |-> active,
                   preference |-> active_preference]
    ELSE [resolved |-> FALSE, out |-> Returned(active), active |-> active,
          preference |-> active_preference]

\* get_backend, lines 466-468: the right-hand side of the assignment to
\* cls._backend for the profile field driver_backend.
ResolveBackend(setting, rt, active, active_preference, id) ==
    LET effective_backend == GetEffectiveDriverBackend(setting, rt)
    IN  IF effective_backend.kind = "raise"
        THEN [resolved |-> FALSE, out |-> Raised(effective_backend.error, NoBackend),
              active |-> active, preference |-> active_preference]
        ELSE GetCachedDriverBackend(effective_backend.value, rt, active,
                                    active_preference, id)

\* A direct call of get_cached_driver_backend: its number, its argument, the
\* cache it found, whether it resolved, and how it ended.
CachedCall(n, preferred, before, beforePreference, resolved, out) ==
    [n |-> n, preferred |-> preferred, before |-> before,
     beforePreference |-> beforePreference, resolved |-> resolved, out |-> out]

NoCachedCall == CachedCall(0, None, NoBackend, None, FALSE, Pending(NoBackend))

\* A thread's get_backend call: where it is, the profile field
\* driver_backend it was given, and how it ended.
BackendCall(pc, setting, out) == [pc |-> pc, setting |-> setting, out |-> out]
NoBackendCall == BackendCall("idle", None, Pending(NoBackend))

\* The interpreter starts.
RuntimeStart ==
    /\ ~runtime.started
    /\ runtime' \in Runtimes
    /\ UNCHANGED <<instances, madeFor, _active_backend, _active_backend_preference,
                   cached, _backend, _backend_lock, backendSets, gb, built, converted, logged>>

\* get_cached_driver_backend(preferred), called directly.
CachedBackendCall ==
    /\ runtime.started
    /\ cached.n < MaxCachedCalls
    /\ \E preferred \in Preferences :
         LET r == GetCachedDriverBackend(preferred, runtime, _active_backend,
                                         _active_backend_preference, instances + 1)
             constructed == r.resolved /\ r.out.kind = "return"
         IN  /\ instances' = IF constructed THEN instances + 1 ELSE instances
             /\ madeFor' = IF constructed THEN Append(madeFor, preferred) ELSE madeFor
             /\ _active_backend' = r.active
             /\ _active_backend_preference' = r.preference
             /\ cached' = CachedCall(cached.n + 1, preferred, _active_backend,
                                     _active_backend_preference, r.resolved, r.out)
    /\ UNCHANGED <<runtime, _backend, _backend_lock, backendSets, gb, built, converted, logged>>

\* get_backend, line 464: with cls._backend_lock
BackendEnter(t) ==
    /\ runtime.started
    /\ gb[t].pc \in {"idle", "done"}
    /\ LockFree(_backend_lock)
    /\ _backend_lock' = t
    /\ \E setting \in Settings :
         gb' = [gb EXCEPT ![t] = BackendCall("test", setting, Pending(NoBackend))]
    /\ UNCHANGED <<runtime, instances, madeFor, _active_backend,
                   _active_backend_preference, cached, _backend, backendSets, built, converted, logged>>

\* line 465: if cls._backend is None
BackendTest(t) ==
    /\ gb[t].pc = "test"
    /\ gb' = [gb EXCEPT ![t].pc = IF _backend = NoBackend THEN "resolve" ELSE "return"]
    /\ UNCHANGED <<runtime, instances, madeFor, _active_backend,
                   _active_backend_preference, cached, _backend, _backend_lock,
                   backendSets, built, converted, logged>>

\* lines 466-468: the effective preference is resolved through the module
\* cache and assigned to cls._backend; an exception leaves the with block.
BackendResolve(t) ==
    /\ gb[t].pc = "resolve"
    /\ LET r == ResolveBackend(gb[t].setting, runtime, _active_backend,
                               _active_backend_preference, instances + 1)
           constructed == r.resolved /\ r.out.kind = "return"
       IN  /\ instances' = IF constructed THEN instances + 1 ELSE instances
           /\ madeFor' = IF constructed THEN Append(madeFor, r.preference) ELSE madeFor
           /\ _active_backend' = r.active
           /\ _active_backend_preference' = r.preference
           /\ IF r.out.kind = "return"
              THEN /\ _backend' = r.out.value
                   /\ backendSets' = backendSets + 1
                   /\ gb' = [gb EXCEPT ![t].pc = "return"]
                   /\ UNCHANGED _backend_lock
              ELSE /\ gb' = [gb EXCEPT ![t].pc = "done", ![t].out = r.out]
                   /\ _backend_lock' = "free"
                   /\ UNCHANGED <<_backend, backendSets>>
    /\ UNCHANGED <<runtime, cached, built, converted, logged>>

\* line 476: return cls._backend, leaving the with block
BackendLeave(t) ==
    /\ gb[t].pc = "return"
    /\ gb' = [gb EXCEPT ![t].pc = "done", ![t].out = Returned(_backend)]
    /\ _backend_lock' = "free"
    /\ UNCHANGED <<runtime, instances, madeFor, _active_backend,
                   _active_backend_preference, cached, _backend, backendSets, built, converted, logged>>

\* ------------------------------------- DriverBackend.build_connection_string
A_sql == <<"s","q","l">>
A_SQL == <<"S","Q","L">>
A_ActiveDirectory == <<"A","c","t","i","v","e","D","i","r","e","c","t","o","r","y">>
A_ActiveDirectoryPassword == A_ActiveDirectory \o <<"P","a","s","s","w","o","r","d">>
A_ActiveDirectoryInteractive ==
    A_ActiveDirectory \o <<"I","n","t","e","r","a","c","t","i","v","e">>
A_ActiveDirectoryMsi == A_ActiveDirectory \o <<"M","s","i">>

\* The authentication modes a profile names.
AuthModes ==
    { A_sql, A_SQL, A_ActiveDirectoryPassword, A_ActiveDirectoryServicePrincipal,
      A_ActiveDirectoryInteractive, A_ActiveDirectoryMsi,
      A_ActiveDirectoryAccessToken, A_CLI, A_auto }

\* sub in s, for strings
Contains(s, sub) ==
    \E i \in 0..(Len(s) - Len(sub)) : SubSeq(s, i + 1, i + Len(sub)) = sub

\* The arguments of build_connection_string that its branches read.
BuildArgs(authentication, encrypt, trust_cert, trace_flag, driver, uid, pwd, windows_login) ==
    [host |-> "host", database |-> "db", authentication |-> authentication,
     encrypt |-> encrypt, trust_cert |-> trust_cert, application_name |-> "dbt-fabric",
     trace_flag |-> trace_flag, driver |-> driver, uid |-> uid, pwd |-> pwd,
     windows_login |-> windows_login]

NoBuildArgs == BuildArgs(NoText, TRUE, FALSE, FALSE, None, None, None, FALSE)

ArgsGiven ==
    { BuildArgs(a, e, c, f, d, u, p, w) :
        a \in AuthModes, e \in BOOLEAN, c \in BOOLEAN, f \in BOOLEAN,
        d \in {None, "ODBC Driver 17 for SQL Server"}, u \in {None, "uid"},
        p \in {None, "pwd"}, w \in BOOLEAN }

\* One KEY=value element of con_str; braces tells whether the value is
\* wrapped in { }.
Part(key, value, braces) == [key |-> key, value |-> value, braces |-> braces]

YesNo(b) == IF b THEN "Yes" ELSE "No"

\* raise self._driver.DatabaseError("SQL Authentication is not supported ...")
SqlAuthenticationError ==
    Err("DatabaseError", <<"SQL Authentication is not supported by Microsoft Fabric">>, 0, 0)

\* (mutant) the encryption flag is always Yes
ClosingPartsEncrypted(encryptKey, a) ==
    << Part(encryptKey, "Yes", FALSE),
       Part("TrustServerCertificate", YesNo(a.trust_cert), FALSE),
       Part("APP", a.application_name, FALSE),
       Part("ConnectRetryCount", "3", FALSE),
       Part("ConnectRetryInterval", "10", FALSE) >>

\* lines 192-204 and 306-318: the fields every connection string ends with
ClosingParts(encryptKey, a) ==
    << Part(encryptKey, YesNo(a.encrypt), FALSE),
       Part("TrustServerCertificate", YesNo(a.trust_cert), FALSE),
       Part("APP", a.application_name, FALSE),
       Part("ConnectRetryCount", "3", FALSE),
       Part("ConnectRetryInterval", "10", FALSE) >>

\* line 185 and line 297
EmitsAuthentication(authentication) ==
    Contains(authentication, A_ActiveDirectory)
    /\ authentication # A_ActiveDirectoryAccessToken

\* (mutant) the SQL mode is rejected whatever windows_login is
RejectsSqlFirst(a) == Lower(a.authentication) = A_sql

\* lines 179-181 and 291-293: the elif reached when windows_login is falsy
RejectsSql(a) == ~a.windows_login /\ Lower(a.authentication) = A_sql

\* MssqlPythonBackend.build_connection_string
BuildMssqlPython(a) ==
    LET head == << Part("SERVER", a.host, FALSE), Part("Database", a.database, FALSE) >>
        auth ==
          IF a.windows_login THEN << Part("Trusted_Connection", "Yes", FALSE) >>
          ELSE IF EmitsAuthentication(a.authentication)
          THEN << Part("Authentication", a.authentication, FALSE) >>
               \o (IF Truthy(a.uid) THEN << Part("UID", a.uid, FALSE) >> ELSE <<>>)
               \o (IF Truthy(a.pwd) THEN << Part("PWD", a.pwd, FALSE) >> ELSE <<>>)
          ELSE <<>>
    IN  IF RejectsSql(a) THEN Raised(SqlAuthenticationError, <<>>)
        ELSE Returned(head \o auth \o ClosingParts("Encrypt", a))

\* PyodbcBackend.build_connection_string
BuildPyodbc(a) ==
    LET driver == IF ~Truthy(a.driver) THEN "ODBC Driver 18 for SQL Server" ELSE a.driver
        head == << Part("DRIVER", driver, TRUE), Part("SERVER", a.host, FALSE),
                   Part("Database", a.database, FALSE), Part("Pooling", "true", FALSE),
                   Part("SQL_ATTR_TRACE",
                        IF a.trace_flag THEN "SQL_OPT_TRACE_ON" ELSE "SQL_OPT_TRACE_OFF",
                        FALSE) >>
        withLogin == a.authentication \in {A_ActiveDirectoryPassword,
                                          A_ActiveDirectoryServicePrincipal,
                                          A_ActiveDirectoryInteractive}
        auth ==
          IF a.windows_login THEN << Part("trusted_connection", "Yes", FALSE) >>
          ELSE IF EmitsAuthentication(a.authentication)
          THEN << Part("Authentication", a.authentication, FALSE) >>
               \o (IF withLogin /\ Truthy(a.uid)
                   THEN << Part("UID", a.uid, TRUE) >> ELSE <<>>)
               \o (IF withLogin /\ Truthy(a.pwd)
                      /\ a.authentication # A_ActiveDirectoryInteractive
                   THEN << Part("PWD", a.pwd, TRUE) >> ELSE <<>>)
          ELSE <<>>
    IN  IF RejectsSql(a) THEN Raised(SqlAuthenticationError, <<>>)
        ELSE Returned(head \o auth \o ClosingParts("encrypt", a))

\* backend.build_connection_string(...)
BuildConnectionString(backend, a) ==
    IF backend = "pyodbc" THEN BuildPyodbc(a) ELSE BuildMssqlPython(a)

\* A build_connection_string call: the backend, the arguments, how it ended.
Built(backend, args, out) == [backend |-> backend, args |-> args, out |-> out]
NoBuilt == Built("none", NoBuildArgs, Pending(<<>>))

\* backend.build_connection_string is called.
BuildCall ==
    /\ built = NoBuilt
    /\ \E backend \in Backends, a \in ArgsGiven :
         built' = Built(backend, a, BuildConnectionString(backend, a))
    /\ UNCHANGED <<runtime, instances, madeFor, _active_backend,
                   _active_backend_preference, cached, _backend, _backend_lock,
                   backendSets, gb, converted, logged>>

\* -------------------------------- convert_bytes_to_mswindows_byte_string
\* bytes are sequences of numbers in 0..255
ByteValues == {0, 97, 98, 99, 255}

ByteStrings == UNION { [1..n -> ByteValues] : n \in 0..MaxBytes }

\* struct.error: 'i' format requires -2147483648 <= number <= 2147483647
StructError == Err("struct.error", <<"'i' format requires a 32-bit number">>, 0, 0)

\* struct.pack("<i", n): four bytes, least significant first
StructPackI(n) ==
    IF n > 2147483647 THEN Raised(StructError, <<>>)
    ELSE Returned(<< n % 256, (n \div 256) % 256, (n \div 65536) % 256,
                     (n \div 16777216) % 256 >>)

\* bytes(chain.from_iterable(zip(value, repeat(0))))
Interleave(value) ==
    [i \in 1..(2 * Len(value)) |-> IF i % 2 = 1 THEN value[(i + 1) \div 2] ELSE 0]

\* (mutant) the prefix counts the bytes of value
ConvertBytesPrefixingCount(value) ==
    LET packed == StructPackI(Len(value))
    IN  IF packed.kind = "raise" THEN packed
        ELSE Returned(packed.value \o Interleave(value))

\* convert_bytes_to_mswindows_byte_string(value)
ConvertBytesToMswindowsByteString(value) ==
    LET encoded_bytes == Interleave(value)
        packed == StructPackI(Len(encoded_bytes))
    IN  IF packed.kind = "raise" THEN packed
        ELSE Returned(packed.value \o encoded_bytes)

\* A conversion: the bytes given and how the call ended.
Conversion(value, out) == [value |-> value, out |-> out]
NoConversion == Conversion(<<>>, Pending(<<>>))

\* convert_bytes_to_mswindows_byte_string is called.
ConvertCall ==
    /\ converted = NoConversion
    /\ \E value \in ByteStrings :
         converted' = Conversion(value, ConvertBytesToMswindowsByteString(value))
    /\ UNCHANGED <<runtime, instances, madeFor, _active_backend,
                   _active_backend_preference, cached, _backend, _backend_lock,
                   backendSets, gb, built, logged>>

\* ------------------------------------ open: con_str_concat and con_str_display
\* The characters of the strings that connection strings are made of.
Spelling ==
    ("SERVER" :> <<"S","E","R","V","E","R">>)
    @@ ("Database" :> <<"D","a","t","a","b","a","s","e">>)
    @@ ("Trusted_Connection" :> <<"T","r","u","s","t","e","d","_","C","o","n","n","e","c","t","i","o","n">>)
    @@ ("trusted_connection" :> <<"t","r","u","s","t","e","d","_","c","o","n","n","e","c","t","i","o","n">>)
    @@ ("Authentication" :> <<"A","u","t","h","e","n","t","i","c","a","t","i","o","n">>)
    @@ ("UID" :> <<"U","I","D">>)
    @@ ("PWD" :> <<"P","W","D">>)
    @@ ("Encrypt" :> <<"E","n","c","r","y","p","t">>)
    @@ ("encrypt" :> <<"e","n","c","r","y","p","t">>)
    @@ ("TrustServerCertificate" :> <<"T","r","u","s","t","S","e","r","v","e","r","C","e","r","t","i","f","i","c","a","t","e">>)
    @@ ("APP" :> <<"A","P","P">>)
    @@ ("ConnectRetryCount" :> <<"C","o","n","n","e","c","t","R","e","t","r","y","C","o","u","n","t">>)
    @@ ("ConnectRetryInterval" :> <<"C","o","n","n","e","c","t","R","e","t","r","y","I","n","t","e","r","v","a","l">>)
    @@ ("DRIVER" :> <<"D","R","I","V","E","R">>)
    @@ ("Pooling" :> <<"P","o","o","l","i","n","g">>)
    @@ ("SQL_ATTR_TRACE" :> <<"S","Q","L","_","A","T","T","R","_","T","R","A","C","E">>)
    @@ ("host" :> <<"h","o","s","t">>)
    @@ ("db" :> <<"d","b">>)
    @@ ("Yes" :> <<"Y","e","s">>)
    @@ ("No" :> <<"N","o">>)
    @@ ("dbt-fabric" :> <<"d","b","t","-","f","a","b","r","i","c">>)
    @@ ("3" :> <<"3">>)
    @@ ("10" :> <<"1","0">>)
    @@ ("true" :> <<"t","r","u","e">>)
    @@ ("ODBC Driver 18 for SQL Server" :> <<"O","D","B","C"," ","D","r","i","v","e","r"," ","1","8"," ","f","o","r"," ","S","Q","L"," ","S","e","r","v","e","r">>)
    @@ ("ODBC Driver 17 for SQL Server" :> <<"O","D","B","C"," ","D","r","i","v","e","r"," ","1","7"," ","f","o","r"," ","S","Q","L"," ","S","e","r","v","e","r">>)
    @@ ("SQL_OPT_TRACE_ON" :> <<"S","Q","L","_","O","P","T","_","T","R","A","C","E","_","O","N">>)
    @@ ("SQL_OPT_TRACE_OFF" :> <<"S","Q","L","_","O","P","T","_","T","R","A","C","E","_","O","F","F">>)
    @@ ("user" :> <<"u","s","e","r">>)
    @@ ("app" :> <<"a","p","p">>)
    @@ ("s3cret" :> <<"s","3","c","r","e","t">>)
    @@ ("hunter2" :> <<"h","u","n","t","e","r","2">>)
    @@ ("*" :> <<"*">>)

Chars(x) == Spelling[x]

\* ";".join(con_str), character by character
RECURSIVE Joined(_)
Joined(parts) ==
    IF Len(parts) = 0 THEN <<>>
    ELSE LET p == parts[1]
             value == IF p.key = "Authentication" THEN p.value ELSE Chars(p.value)
             text == Chars(p.key) \o <<"=">>
                     \o (IF p.braces THEN <<"{">> \o value \o <<"}">> ELSE value)
         IN  IF Len(parts) = 1 THEN text
             ELSE text \o <<";">> \o Joined(Tail(parts))

\* str.replace(old, new) for a non-empty old: the occurrences of old, found
\* from the left and not overlapping, are replaced by new
RECURSIVE Replace(_, _, _)
Replace(str, old, new) ==
    LET found == { i \in 1..(Len(str) - Len(old) + 1) :
                     SubSeq(str, i, i + Len(old) - 1) = old }
    IN  IF found = {} THEN str
        ELSE LET i == CHOOSE x \in found : \A y \in found : x <= y
             IN  SubSeq(str, 1, i - 1) \o new
                 \o Replace(SubSeq(str, i + Len(old), Len(str)), old, new)

\* lines 534-543: uid and pwd by authentication type
UidPwd(authentication) ==
    IF authentication = A_ActiveDirectoryPassword THEN [uid |-> "UID", pwd |-> "PWD"]
    ELSE IF authentication = A_ActiveDirectoryServicePrincipal
    THEN [uid |-> "client_id", pwd |-> "client_secret"]
    ELSE IF authentication = A_ActiveDirectoryInteractive THEN [uid |-> "UID", pwd |-> None]
    ELSE [uid |-> None, pwd |-> None]

\* The values of the profile that lines 534-543 pick uid and pwd from.
Login(UID, PWD, client_id, client_secret) ==
    [UID |-> UID, PWD |-> PWD, client_id |-> client_id, client_secret |-> client_secret]

\* The secrets a profile may hold, None when it holds none.
Secrets == {None, "s3cret", "hunter2", "user", "Yes", "*"}

\* open, lines 533-566 and 573-582: the string handed to backend.connect
\* and the string logged.
Strings(backend, authentication, login) ==
    LET picked == UidPwd(authentication)
        uid == IF picked.uid = None THEN None ELSE login[picked.uid]
        pwd == IF picked.pwd = None THEN None ELSE login[picked.pwd]
        built_ == BuildConnectionString(
                    backend, BuildArgs(authentication, TRUE, FALSE, FALSE, None,
                                       uid, pwd, FALSE))
        con_str_concat == Joined(built_.value)
    IN  [pwd |-> pwd,
         connection_string |-> con_str_concat,
         con_str_display |-> IF Truthy(pwd)
                             THEN Replace(con_str_concat, Chars(pwd), <<"*","*","*">>)
                             ELSE con_str_concat]

Logged(backend, authentication, first, second) ==
    [backend |-> backend, authentication |-> authentication,
     first |-> first, second |-> second]

NoLogged ==
    Logged("none", NoText,
           [pwd |-> None, connection_string |-> <<>>, con_str_display |-> <<>>],
           [pwd |-> None, connection_string |-> <<>>, con_str_display |-> <<>>])

\* Two connections are opened with profiles that differ in the secret
\* (PWD and client_secret) only.
DisplayCall ==
    /\ logged = NoLogged
    /\ \E backend \in Backends, s1 \in Secrets, s2 \in Secrets :
       \E authentication \in {A_ActiveDirectoryPassword, A_ActiveDirectoryServicePrincipal,
                              A_ActiveDirectoryInteractive, A_CLI} :
         logged' = Logged(backend, authentication,
                          Strings(backend, authentication, Login("user", s1, "app", s1)),
                          Strings(backend, authentication, Login("user", s2, "app", s2)))
    /\ UNCHANGED <<runtime, instances, madeFor, _active_backend,
                   _active_backend_preference, cached, _backend, _backend_lock,
                   backendSets, gb, built, converted>>

BackendIdle ==
    /\ runtime = NoRuntime
    /\ instances = 0
    /\ madeFor = <<>>
    /\ _active_backend = NoBackend
    /\ _active_backend_preference = None
    /\ cached = NoCachedCall
    /\ _backend = NoBackend
    /\ _backend_lock = "free"
    /\ backendSets = 0
    /\ gb = [t \in Threads |-> NoBackendCall]
    /\ built = NoBuilt
    /\ converted = NoConversion
    /\ logged = NoLogged

\* ------------------------------- add_query, execute and exception_handler
\* backend.get_error_types()
ErrorTypes(backend) == {"Error", "DatabaseError", "OperationalError"}

\* backend.get_retryable_exceptions()
RetryableExceptions(backend) ==
    IF backend = "pyodbc"
    THEN {"InternalError", "OperationalError", "InterfaceError"}
    ELSE {"OperationalError", "InterfaceError"}

\* backend.get_database_error()
DatabaseError(backend) == "DatabaseError"

\* add_query(..., retry_limit: int = 2)
DefaultRetryLimit == 2

\* (mutant) the configured retries are raised to a floor of three
RetryLimitFloorOfThree(retries, retry_limit) == IF retries > 3 THEN retries ELSE 3

\* line 716: credentials.retries if credentials.retries > 3 else retry_limit
EffectiveRetryLimit(retries, retry_limit) ==
    IF retries > 3 THEN retries ELSE retry_limit

\* An exception raised from another: its text names the class of its cause
\* and n is the execution the cause came from.
Wrapped(type, e) == Err(type, <<e.type>>, 0, e.n)

\* what self.release() raises when it fails
ReleaseError == Err("ReleaseError", NoText, 0, 0)

\* (mutant) a failure of the release is not caught
ExceptionHandlerReleaseUncaught(e, backend, releaseFails) ==
    IF releaseFails THEN [releases |-> 1, out |-> Raised(ReleaseError, None)]
    ELSE IF Catches(e, ErrorTypes(backend)) /\ IsInstance(e, DatabaseError(backend))
    THEN [releases |-> 1, out |-> Raised(Wrapped("DbtDatabaseError", e), None)]
    ELSE IF IsInstance(e, "DbtRuntimeError") THEN [releases |-> 1, out |-> Raised(e, None)]
    ELSE [releases |-> 1, out |-> Raised(Wrapped("DbtRuntimeError", e), None)]

\* (mutant) an internal error is wrapped like any other
ExceptionHandlerWrapsAll(e, backend, releaseFails) ==
    IF Catches(e, ErrorTypes(backend))
    THEN IF IsInstance(e, DatabaseError(backend))
         THEN [releases |-> 1, out |-> Raised(Wrapped("DbtDatabaseError", e), None)]
         ELSE [releases |-> 0, out |-> Raised(e, None)]
    ELSE IF releaseFails THEN [releases |-> 1, out |-> Raised(ReleaseError, None)]
    ELSE [releases |-> 1, out |-> Raised(Wrapped("DbtRuntimeError", e), None)]

\* exception_handler, lines 495-519, for the exception e leaving the with
\* block: the number of self.release() calls and the exception raised;
\* releaseFails tells whether self.release() raises.
ExceptionHandler(e, backend, releaseFails) ==
    IF Catches(e, ErrorTypes(backend))
    THEN IF IsInstance(e, DatabaseError(backend))
         THEN [releases |-> 1, out |-> Raised(Wrapped("DbtDatabaseError", e), None)]
         ELSE [releases |-> 0, out |-> Raised(e, None)]
    ELSE IF releaseFails THEN [releases |-> 1, out |-> Raised(ReleaseError, None)]
    ELSE IF IsInstance(e, "DbtRuntimeError") THEN [releases |-> 1, out |-> Raised(e, None)]
    ELSE [releases |-> 1, out |-> Raised(Wrapped("DbtRuntimeError", e), None)]

\* An add_query call: where it is, who called it, credentials.retries, its
\* retry_limit argument, the backend of the connection, the number of
\* self.release() calls, whether the release failed, and how it ended.
AddQuery(pc, caller, retries, retry_limit, backend, releases, releaseFailed, out) ==
    [pc |-> pc, caller |-> caller, retries |-> retries, retry_limit |-> retry_limit,
     backend |-> backend, releases |-> releases, releaseFailed |-> releaseFailed,
     out |-> out]

NoAddQuery == AddQuery("idle", "none", 0, 0, "none", 0, FALSE, Pending(None))

AddQueryIdle == aq = NoAddQuery

\* add_query up to the first cursor.execute, lines 681-718; execute calls it
\* with the defaults of retryable_exceptions and retry_limit (line 768).
AddQueryCall ==
    /\ aq.pc = "idle"
    /\ qPc = "idle"
    /\ \E caller \in {"execute", "add_query"}, retries \in 0..(MaxRetryLimit + 1),
          backend \in Backends :
         \E retryable \in IF caller = "execute" THEN {{}}
                          ELSE {{}, RetryableExceptions(backend)},
            retry_limit \in IF caller = "execute" THEN {DefaultRetryLimit}
                            ELSE {1, DefaultRetryLimit} :
           /\ aq' = AddQuery("run", caller, retries, retry_limit, backend, 0, FALSE,
                             Pending(None))
           /\ qArgs' = [retry_limit |-> EffectiveRetryLimit(retries, retry_limit),
                        retryable_exceptions |-> retryable]
    /\ qAttempt' = 1
    /\ qPc' = "try"
    /\ UNCHANGED <<qExecs, qSleeps, qLastExec, qOutcome>>

\* The with block of add_query is left: by the return of line 734, or by an
\* exception that the handler's except clauses deal with.
AddQueryExit ==
    /\ aq.pc = "run"
    /\ qPc = "done"
    /\ IF qOutcome.kind = "return"
       THEN aq' = [aq EXCEPT !.pc = "done", !.out = Returned(None)]
       ELSE \E releaseFails \in BOOLEAN :
              LET h == ExceptionHandler(qOutcome.error, aq.backend, releaseFails)
              IN  aq' = [aq EXCEPT !.pc = "done", !.releases = h.releases,
                                   !.releaseFailed = (h.releases > 0 /\ releaseFails),
                                   !.out = h.out]
    /\ UNCHANGED qVars

\* ------------------------------------------------ FabricConnectionManager.open
W_dbt == <<"d","b","t">>
W_run == <<"r","u","n">>
W_Build == <<"B","u","i","l","d">>
W_build == <<"b","u","i","l","d">>
W_snapshot == <<"s","n","a","p","s","h","o","t">>
W_debug == <<"d","e","b","u","g">>
W_compile == <<"c","o","m","p","i","l","e">>
W_target == <<"-","-","t","a","r","g","e","t">>

TARGET_COMMANDS == {W_run, W_build, W_snapshot}

\* The command lines the process is started with.
CommandLines ==
    { <<W_dbt, W_run>>, <<W_dbt, W_Build>>, <<W_dbt, W_snapshot>>, <<W_dbt, W_debug>>,
      <<W_dbt, W_compile>>, <<W_dbt, W_compile, W_target, W_build>> }

\* _should_run_init, lines 358-365
ShouldRunInit(argv) ==
    LET argv_lower == [i \in 1..Len(argv) |-> Lower(argv[i])]
    IN  \E cmd \in TARGET_COMMANDS : \E i \in 1..Len(argv_lower) : argv_lower[i] = cmd

\* The fields of FabricCredentials the start action reads.
OpenCredentials(authentication, workspace_id, warehouse_snapshot_name) ==
    [authentication |-> authentication, workspace_id |-> workspace_id,
     warehouse_snapshot_name |-> warehouse_snapshot_name,
     windows_login |-> FALSE, access_token |-> None, access_token_expires_on |-> 0,
     nulls |-> {"access_token"}]

\* The same with the fields open reads for the connection: windows_login,
\* access_token and access_token_expires_on.
ConnectCredentials(authentication, windows_login, access_token) ==
    [OpenCredentials(authentication, None, None) EXCEPT
       !.windows_login = windows_login,
       !.access_token = access_token,
       !.nulls = IF access_token = None THEN {"access_token"} ELSE {}]

\* A profile for every way of authenticating: the strategies, the
\* Active-Directory modes, the static token, Windows login, SQL.
ProfilesOfEveryMode ==
    { ConnectCredentials(a, FALSE, None) :
        a \in {A_cli, A_auto, A_ActiveDirectoryServicePrincipal,
               A_ActiveDirectoryPassword, A_ActiveDirectoryInteractive, A_sql} }
    \cup { ConnectCredentials(A_ActiveDirectoryAccessToken, FALSE, x) : x \in {None, "static"} }
    \cup { ConnectCredentials(A_ActiveDirectoryServicePrincipal, TRUE, None) }

ProfilesGiven ==
    { OpenCredentials(a, w, n) :
        a \in {A_cli, A_ActiveDirectoryServicePrincipal},
        w \in {None, "ws"}, n \in {None, SnapshotName} }

\* What the poller hands back to create_warehouse_snapshot.
PollOutcomes ==
    { Returned(b) : b \in ResultBodies }
    \cup { Raised(OperationTimedOut("op1", DefaultMaxRetries), EmptyObj),
           Raised(OperationFailed("op1", With(EmptyObj, "status", S_Failed)), EmptyObj) }

\* How orchestrate_snapshot_management can end: a lookup fails, the update
\* path, the create path without and with polling.
OrchestrateOutcomes ==
    { Raised(ConnectionError, EmptyResult),
      Raised(Err("ValueError", <<"Warehouse", WarehouseName, "not found">>, 0, 0), EmptyResult) }
    \cup { Update("s1", resp) : resp \in UpdateResponses("s1") }
    \cup { Create(resp).outcome :
             resp \in { x \in PostResponses(SnapshotName) : Create(x).act # "poll" } }
    \cup { CreateAfterPoll(polled, "w1", SnapshotName) : polled \in PollOutcomes }

\* _run_start_action, lines 368-399.  acquired: the acquisition strategy
\* returned a token; orchestrated: how orchestrate ends when it is called.
\* Gives the outcome, whether _snapshot_manager was set and whether
\* orchestrate was called.
RunStartAction(credentials, acquired, orchestrated) ==
    IF credentials.workspace_id = None
    THEN [outcome |-> Returned(EmptyResult), manager |-> FALSE, orchestrate |-> FALSE]
    ELSE IF Lower(credentials.authentication) \notin AZURE_AUTH_FUNCTIONS
    THEN [outcome |-> Raised(Err("KeyError", NoText, 0, 0), EmptyResult),
          manager |-> FALSE, orchestrate |-> FALSE]
    ELSE IF ~acquired
    THEN [outcome |-> Raised(Err("ClientAuthenticationError", NoText, 0, 0), EmptyResult),
          manager |-> FALSE, orchestrate |-> FALSE]
    ELSE IF credentials.warehouse_snapshot_name = None
    THEN [outcome |-> Returned(EmptyResult), manager |-> TRUE, orchestrate |-> FALSE]
    ELSE [outcome |-> orchestrated, manager |-> TRUE, orchestrate |-> TRUE]

\* (mutant) the exception of the start action is not caught
InitActionsUncaught(started) ==
    [register |-> started.kind = "return",
     raise |-> IF started.kind = "raise" THEN started.error ELSE NoError]

\* lines 602-606: the result is registered for the end of the run; an
\* exception is logged and dropped
InitActions(started) ==
    [register |-> started.kind = "return", raise |-> NoError]


\* target/run_results.json
RunResults(exists, readable, keys, results) ==
    [exists |-> exists, readable |-> readable, keys |-> keys, results |-> results]

NoRunResults == RunResults(FALSE, FALSE, {}, <<>>)

ResultEntries ==
    { [keys |-> {}, status |-> None] }
    \cup { [keys |-> {"status"}, status |-> s] : s \in {"success", "error", "fail"} }

Artifacts(n) ==
    { NoRunResults, RunResults(TRUE, FALSE, {}, <<>>), RunResults(TRUE, TRUE, {}, <<>>) }
    \cup { RunResults(TRUE, TRUE, {"results"}, rs) : rs \in SeqsUpTo(ResultEntries, n) }

\* (mutant) results with errors count as success
RunStatusErrorsIgnored(artifact) ==
    IF ~artifact.exists THEN "unknown"
    ELSE IF ~artifact.readable THEN "unknown"
    ELSE IF Len(Get(artifact, "results", <<>>)) = 0 THEN "unknown"
    ELSE "success"

\* get_dbt_run_status, lines 402-429
RunStatus(artifact) ==
    IF ~artifact.exists THEN "unknown"
    ELSE IF ~artifact.readable THEN "unknown"
    ELSE LET results == Get(artifact, "results", <<>>) IN
         IF Len(results) = 0 THEN "unknown"
         ELSE IF \E i \in 1..Len(results) : Get(results[i], "status", None) = "error"
              THEN "error" ELSE "success"

\* _run_end_action, lines 432-453: the snapshot it PATCHes, None when it
\* issues no request.
EndActionUpdates(snapshot_result, manager, status) ==
    IF status # "success" THEN None
    ELSE IF snapshot_result.keys = {} \/ ~manager THEN None
    ELSE IF "displayName" \notin snapshot_result.keys THEN None
    ELSE IF "snapshot_id" \notin snapshot_result.keys THEN None
    ELSE snapshot_result.snapshot_id

\* The process: whether it has started, its sys.argv and its profile.
Process(running, argv, credentials) ==
    [running |-> running, argv |-> argv, credentials |-> credentials]

NoProcess == Process(FALSE, <<>>, OpenCredentials(NoText, None, None))

\* A thread's open call: where it is, the state of its connection, the
\* outcome of the start action it ran (none if it ran none), how it ended,
\* the number of open calls the thread has made and the number of
\* backend.connect attempts they made; con_str_concat of the current call
\* and what its last run of connect() handed to backend.connect.
OpenCall(pc, state, started, out, calls, connects, con_str_concat, lastAttempt) ==
    [pc |-> pc, state |-> state, started |-> started, out |-> out, calls |-> calls,
     connects |-> connects, con_str_concat |-> con_str_concat, attempt |-> lastAttempt]

\* A run of connect(): its number within the open call, the time it ran
\* at, whether it reached backend.connect and, if so, the attrs_before and
\* the connection string it handed over.
Attempt(n, at, called, attrs_before, connection_string) ==
    [n |-> n, at |-> at, called |-> called, attrs_before |-> attrs_before,
     connection_string |-> connection_string]

NoAttempt == Attempt(0, 0, FALSE, EmptyAttrs, <<>>)

NoOpenCall ==
    OpenCall("idle", "init", Pending(EmptyResult), Pending(None), 0, 0, <<>>, NoAttempt)

\* The end of the process: the artifact found, the status derived from it
\* and the snapshots the end-of-run actions sent a PATCH for.
Ended(done, artifact, status, patched) ==
    [done |-> done, artifact |-> artifact, status |-> status, patched |-> patched]

NotEnded == Ended(FALSE, NoRunResults, "none", <<>>)

OpenIdle ==
    /\ proc = NoProcess
    /\ _init_done = FALSE
    /\ _init_lock = "free"
    /\ _snapshot_manager = FALSE
    /\ atexit = <<>>
    /\ startRuns = 0
    /\ orchRuns = 0
    /\ op = [t \in Threads |-> NoOpenCall]
    /\ ended = NotEnded

\* The process starts with its command line and its profile.
ProcessStart ==
    /\ ~proc.running
    /\ \E argv \in CommandLines, credentials \in ProfilesGiven :
         proc' = Process(TRUE, argv, credentials)
    /\ UNCHANGED <<_init_done, _init_lock, _snapshot_manager, atexit, startRuns,
                   orchRuns, op, ended>>

\* (mutant) the state of the connection is not looked at
AlreadyOpenNever(state) == FALSE

\* line 523: connection.state == ConnectionState.OPEN
AlreadyOpen(state) == state = "open"


\* get_token_attrs_before(credentials, backend) run to its end by one
\* thread at time t, with the cached token and as the n-th acquisition: how
\* it can end, the token it leaves cached and the acquisitions it makes.
GetTokenAttrsBefore(credentials, backend, token, t, n) ==
    LET mode == Lower(credentials.authentication)
        kept(out) == [out |-> out, token |-> token, fetched |-> 0]
    IN  IF ~RequiresTokenBytes(backend) THEN { kept(Returned(EmptyAttrs)) }
        ELSE IF mode \in AZURE_AUTH_FUNCTIONS
        THEN IF NeedsRefresh(token, t)
             THEN { [out |-> Returned(TokenAttrs(a)), token |-> a, fetched |-> 1] :
                      a \in Acquired(mode, n, t) }
                  \cup { [out |-> Raised(Err("ClientAuthenticationError", NoText, 0, 0),
                                         EmptyAttrs),
                          token |-> token, fetched |-> 1] }
             ELSE { kept(Returned(TokenAttrs(token))) }
        ELSE IF mode = A_activedirectoryaccesstoken
        THEN IF credentials.nulls # {}
             THEN { kept(Raised(ValueError, EmptyAttrs)) }
             ELSE { [out |-> Returned(TokenAttrs(StaticToken(credentials, t))),
                     token |-> StaticToken(credentials, t), fetched |-> 0] }
        ELSE { kept(Returned(EmptyAttrs)) }

FailedToConnectError == Err("FailedToConnectError", NoText, 0, 0)

\* open, lines 527-595, on a connection that is not open: the backend is
\* resolved, the connection string is built and the connection is attempted
\* under retry_connection, the attempt asking for the token attributes
\* first; connected tells whether backend.connect succeeds.  The ways it
\* can go: the resolution made, the token left cached, the acquisitions
\* and connect attempts made, and the exception open raises (NoError when
\* the connection was established).
Opening(credentials, connected) ==
    LET r == IF _backend = NoBackend
             THEN ResolveBackend(DEFAULT_BACKEND, runtime, _active_backend,
                                 _active_backend_preference, instances + 1)
             ELSE [resolved |-> FALSE, out |-> Returned(_backend),
                   active |-> _active_backend, preference |-> _active_backend_preference]
        before(e) == [backend |-> r, token |-> _TOKEN, fetched |-> 0, connects |-> 0,
                      inRetry |-> FALSE, error |-> e]
        login == UidPwd(credentials.authentication)
        con_str == BuildConnectionString(
                     r.out.value.name,
                     BuildArgs(credentials.authentication, TRUE, FALSE, FALSE, None,
                               login.uid, login.pwd, credentials.windows_login))
        tokenCredentials ==
            TokenCredentials(credentials.authentication, credentials.access_token,
                             credentials.access_token_expires_on, credentials.nulls)
    IN  IF r.out.kind = "raise" THEN { before(r.out.error) }
        ELSE IF con_str.kind = "raise" THEN { before(con_str.error) }
        ELSE { [backend |-> r, token |-> a.token, fetched |-> a.fetched,
                connects |-> IF a.out.kind = "return" THEN 1 ELSE 0,
                inRetry |-> TRUE,
                error |-> IF a.out.kind = "return" /\ connected
                          THEN NoError ELSE FailedToConnectError] :
                 a \in GetTokenAttrsBefore(tokenCredentials, r.out.value.name, _TOKEN,
                                           now, acquisitions + 1) }

\* open, lines 523-598: an open connection is returned as it is; otherwise
\* the connection is attempted and, when it is established, the command
\* line is tested.
OpenConnect(t) ==
    /\ proc.running
    /\ ~ended.done
    /\ op[t].pc \in {"idle", "done"}
    /\ op[t].calls < MaxOpens
    /\ IF AlreadyOpen(op[t].state)
       THEN /\ op' = [op EXCEPT ![t].pc = "done", ![t].out = Returned(t),
                                ![t].calls = @ + 1]
            /\ UNCHANGED <<instances, madeFor, _active_backend,
                           _active_backend_preference, _backend, backendSets,
                           _TOKEN, acquisitions>>
       ELSE \E connected \in BOOLEAN : \E o \in Opening(proc.credentials, connected) :
              LET r == o.backend
                  constructed == r.resolved /\ r.out.kind = "return"
                  assigned == _backend = NoBackend /\ r.out.kind = "return"
              IN  /\ instances' = IF constructed THEN instances + 1 ELSE instances
                  /\ madeFor' = IF constructed THEN Append(madeFor, r.preference)
                                ELSE madeFor
                  /\ _active_backend' = r.active
                  /\ _active_backend_preference' = r.preference
                  /\ _backend' = IF assigned THEN r.out.value ELSE _backend
                  /\ backendSets' = IF assigned THEN backendSets + 1 ELSE backendSets
                  /\ _TOKEN' = o.token
                  /\ acquisitions' = acquisitions + o.fetched
                  /\ op' = [op EXCEPT ![t] =
                       IF o.error # NoError
                       THEN [@ EXCEPT !.pc = "done",
                                      !.state = IF o.inRetry THEN "fail" ELSE @,
                                      !.out = Raised(o.error, None),
                                      !.calls = @ + 1, !.connects = @ + o.connects]
                       ELSE IF ShouldRunInit(proc.argv)
                       THEN [@ EXCEPT !.pc = "lock", !.state = "open",
                                      !.out = Pending(None),
                                      !.calls = @ + 1, !.connects = @ + o.connects]
                       ELSE [@ EXCEPT !.pc = "done", !.state = "open",
                                      !.out = Returned(t),
                                      !.calls = @ + 1, !.connects = @ + o.connects]]
    /\ UNCHANGED <<proc, _init_done, _init_lock, _snapshot_manager, atexit, startRuns,
                   orchRuns, ended>>
    /\ UNCHANGED <<runtime, cached, _backend_lock, gb, built, converted, logged>>
    /\ UNCHANGED <<now, ticks, tokenCalls, profile, tk>>

\* The process starts with its command line and a profile of any mode.
ProcessStartOfEveryMode ==
    /\ ~proc.running
    /\ \E argv \in CommandLines, credentials \in ProfilesOfEveryMode :
         proc' = Process(TRUE, argv, credentials)
    /\ UNCHANGED <<_init_done, _init_lock, _snapshot_manager, atexit, startRuns,
                   orchRuns, op, ended>>

\* open, lines 527-570, on a connection that is not open: the resolution
\* of the backend and the connection string built with it.
Preparing(credentials) ==
    LET r == IF _backend = NoBackend
             THEN ResolveBackend(DEFAULT_BACKEND, runtime, _active_backend,
                                 _active_backend_preference, instances + 1)
             ELSE [resolved |-> FALSE, out |-> Returned(_backend),
                   active |-> _active_backend, preference |-> _active_backend_preference]
        login == UidPwd(credentials.authentication)
    IN  [backend |-> r,
         con_str |->
           IF r.out.kind = "raise" THEN Raised(r.out.error, <<>>)
           ELSE BuildConnectionString(
                  r.out.value.name,
                  BuildArgs(credentials.authentication, TRUE, FALSE, FALSE, None,
                            login.uid, login.pwd, credentials.windows_login))]

\* open, lines 523-570 and 589: an open connection is returned as it is;
\* otherwise the backend is resolved, the connection string is built and
\* retry_connection is entered with the closure connect.
OpenEnter(t) ==
    /\ proc.running
    /\ ~ended.done
    /\ op[t].pc \in {"idle", "done"}
    /\ op[t].calls < MaxOpens
    /\ IF AlreadyOpen(op[t].state)
       THEN /\ op' = [op EXCEPT ![t].pc = "done", ![t].out = Returned(t),
                                ![t].calls = @ + 1]
            /\ UNCHANGED <<instances, madeFor, _active_backend,
                           _active_backend_preference, _backend, backendSets>>
       ELSE LET p == Preparing(proc.credentials)
                r == p.backend
                constructed == r.resolved /\ r.out.kind = "return"
                assigned == _backend = NoBackend /\ r.out.kind = "return"
            IN  /\ instances' = IF constructed THEN instances + 1 ELSE instances
                /\ madeFor' = IF constructed THEN Append(madeFor, r.preference)
                              ELSE madeFor
                /\ _active_backend' = r.active
                /\ _active_backend_preference' = r.preference
                /\ _backend' = IF assigned THEN r.out.value ELSE _backend
                /\ backendSets' = IF assigned THEN backendSets + 1 ELSE backendSets
                /\ op' = [op EXCEPT ![t] =
                     IF p.con_str.kind = "raise"
                     THEN [@ EXCEPT !.pc = "done", !.out = Raised(p.con_str.error, None),
                                    !.calls = @ + 1]
                     ELSE [@ EXCEPT !.pc = "retry", !.out = Pending(None),
                                    !.calls = @ + 1,
                                    !.con_str_concat = p.con_str.value,
                                    !.attempt = NoAttempt]]
    /\ UNCHANGED <<proc, _init_done, _init_lock, _snapshot_manager, atexit, startRuns,
                   orchRuns, ended>>
    /\ UNCHANGED <<runtime, cached, _backend_lock, gb, built, converted, logged>>
    /\ UNCHANGED tokVars

\* (mutant) the attributes are asked for once, when connect() first runs,
\* and used again by its later runs
TokenAttrsOfFirstRun(credentials, backend, last, token, t, n) ==
    IF last.n = 0
    THEN { [out |-> a.out, token |-> a.token, fetched |-> a.fetched, asked |-> 1] :
             a \in GetTokenAttrsBefore(credentials, backend, token, t, n) }
    ELSE { [out |-> IF last.called THEN Returned(last.attrs_before)
                    ELSE Raised(ValueError, EmptyAttrs),
            token |-> token, fetched |-> 0, asked |-> 0] }

\* line 576: attrs_before = get_token_attrs_before(credentials, backend),
\* in the run of connect() that follows the run last; asked counts the
\* calls of get_token_attrs_before
TokenAttrsOfRun(credentials, backend, last, token, t, n) ==
    { [out |-> a.out, token |-> a.token, fetched |-> a.fetched, asked |-> 1] :
        a \in GetTokenAttrsBefore(credentials, backend, token, t, n) }

\* connect(), lines 572-586, run once by retry_connection: the token
\* attributes are asked for, then backend.connect is called with them and
\* con_str_concat.  connected: backend.connect returns a handle; again:
\* retry_connection runs connect() once more after a failure.
OpenAttempt(t) ==
    /\ op[t].pc = "retry"
    /\ op[t].attempt.n < MaxAttempts
    /\ \E connected \in BOOLEAN, again \in BOOLEAN :
       \E a \in TokenAttrsOfRun(
                  TokenCredentials(proc.credentials.authentication,
                                   proc.credentials.access_token,
                                   proc.credentials.access_token_expires_on,
                                   proc.credentials.nulls),
                  _backend.name, op[t].attempt, _TOKEN, now, acquisitions + 1) :
         LET called == a.out.kind = "return"
             n == op[t].attempt.n + 1
             made == Attempt(n, now, called,
                             IF called THEN a.out.value ELSE EmptyAttrs,
                             IF called THEN op[t].con_str_concat ELSE <<>>)
             ok == called /\ connected
             init == ShouldRunInit(proc.argv)
         IN  /\ _TOKEN' = a.token
             /\ acquisitions' = acquisitions + a.fetched
             /\ tokenCalls' = tokenCalls + a.asked
             /\ op' = [op EXCEPT ![t] =
                  IF ok
                  THEN [@ EXCEPT !.pc = IF init THEN "lock" ELSE "done",
                                 !.state = "open",
                                 !.out = IF init THEN Pending(None) ELSE Returned(t),
                                 !.connects = @ + 1, !.attempt = made]
                  ELSE IF again /\ n < MaxAttempts
                  THEN [@ EXCEPT !.connects = IF called THEN @ + 1 ELSE @,
                                 !.attempt = made]
                  ELSE [@ EXCEPT !.pc = "done", !.state = "fail",
                                 !.out = Raised(FailedToConnectError, None),
                                 !.connects = IF called THEN @ + 1 ELSE @,
                                 !.attempt = made]]
    /\ UNCHANGED <<proc, _init_done, _init_lock, _snapshot_manager, atexit, startRuns,
                   orchRuns, ended>>
    /\ UNCHANGED backVars
    /\ UNCHANGED <<now, ticks, profile, tk>>

\* line 600: with _init_lock
OpenLock(t) ==
    /\ op[t].pc = "lock"
    /\ LockFree(_init_lock)
    /\ _init_lock' = t
    /\ op' = [op EXCEPT ![t].pc = "locked"]
    /\ UNCHANGED <<proc, _init_done, _snapshot_manager, atexit, startRuns, orchRuns, ended>>

\* How orchestrate ends when its create call polled the operation.
PolledOutcomes ==
    { CreateAfterPoll(polled, "w1", SnapshotName) : polled \in PollOutcomes }

\* lines 601-603 up to a time.sleep(retry_delay) of the poller: the flag
\* is not set, the start action runs, orchestrate creates the snapshot, the
\* service answers 202 and the thread sleeps between two status requests,
\* inside the with block.
OpenInitSleep(t) ==
    /\ op[t].pc = "locked"
    /\ ~_init_done
    /\ RunStartAction(proc.credentials, TRUE, Pending(EmptyResult)).orchestrate
    /\ op' = [op EXCEPT ![t].pc = "polling"]
    /\ UNCHANGED <<proc, _init_done, _init_lock, _snapshot_manager, atexit, startRuns,
                   orchRuns, ended>>

\* lines 601-606: the flag is tested; when it is not set the start action
\* runs (or, after a sleep of its poller, goes on) and its result is
\* registered with atexit.
OpenInit(t) ==
    /\ op[t].pc \in {"locked", "polling"}
    /\ IF _init_done
       THEN /\ op' = [op EXCEPT ![t].pc = "skip"]
            /\ UNCHANGED <<_init_lock, _snapshot_manager, atexit, startRuns, orchRuns>>
       ELSE \E acquired \in BOOLEAN, orchestrated \in OrchestrateOutcomes :
              LET s == RunStartAction(proc.credentials, acquired, orchestrated)
                  h == InitActions(s.outcome)
              IN  /\ op[t].pc = "polling" => acquired /\ orchestrated \in PolledOutcomes
                  /\ startRuns' = startRuns + 1
                  /\ orchRuns' = IF s.orchestrate THEN orchRuns + 1 ELSE orchRuns
                  /\ _snapshot_manager' = (_snapshot_manager \/ s.manager)
                  /\ atexit' = IF h.register THEN Append(atexit, s.outcome.value) ELSE atexit
                  /\ IF h.raise = NoError
                     THEN /\ op' = [op EXCEPT ![t].pc = "ran", ![t].started = s.outcome]
                          /\ UNCHANGED _init_lock
                     ELSE /\ op' = [op EXCEPT ![t].pc = "done", ![t].started = s.outcome,
                                              ![t].out = Raised(h.raise, None)]
                          /\ _init_lock' = "free"
    /\ UNCHANGED <<proc, _init_done, ended>>

\* (mutant) the flag is set only when the start action returned
OpenUnlockAfterSuccess(t) ==
    /\ op[t].pc \in {"ran", "skip"}
    /\ _init_done' = (_init_done \/ (op[t].pc = "ran" /\ op[t].started.kind = "return"))
    /\ _init_lock' = "free"
    /\ op' = [op EXCEPT ![t].pc = "done", ![t].out = Returned(t)]
    /\ UNCHANGED <<proc, _snapshot_manager, atexit, startRuns, orchRuns, ended>>

\* lines 607-609: the flag is set when the start action was run, the lock
\* is released and open returns the connection.
OpenUnlock(t) ==
    /\ op[t].pc \in {"ran", "skip"}
    /\ _init_done' = (_init_done \/ op[t].pc = "ran")
    /\ _init_lock' = "free"
    /\ op' = [op EXCEPT ![t].pc = "done", ![t].out = Returned(t)]
    /\ UNCHANGED <<proc, _snapshot_manager, atexit, startRuns, orchRuns, ended>>

\* The process exits: the functions registered with atexit run.
ProcessExit ==
    /\ proc.running
    /\ ~ended.done
    /\ \A t \in Threads : op[t].pc \in {"idle", "done"}
    /\ \E artifact \in Artifacts(MaxResults) :
         LET status == RunStatus(artifact)
             updates == [i \in 1..Len(atexit) |->
                           EndActionUpdates(atexit[i], _snapshot_manager, status)]
         IN  ended' = Ended(TRUE, artifact, status, SelectSeq(updates, LAMBDA u : u # None))
    /\ UNCHANGED <<proc, _init_done, _init_lock, _snapshot_manager, atexit, startRuns,
                   orchRuns, op>>

\* ------------------------------------------------------- specifications
Init ==
    /\ QueryIdle /\ PollIdle /\ OrchIdle /\ TokenIdle /\ OpenIdle
    /\ BackendIdle /\ AddQueryIdle

\* A direct call of the poller.
PollCall ==
    /\ pollPc = "idle"
    /\ \E max_retries \in 0..MaxRetries, retry_delay \in {DefaultRetryAfter, 5},
          operation_id \in {None, "op1"} :
         PollEnter("https://loc/op1", operation_id, max_retries, retry_delay)
    /\ UNCHANGED <<qVars, orchVars, tokVars, openVars, backVars, aqVars>>

PollLoop == PollIterate /\ UNCHANGED <<qVars, orchVars, tokVars, openVars, backVars, aqVars>>

PollTimeout == PollExhausted /\ UNCHANGED <<qVars, orchVars, tokVars, openVars, backVars, aqVars>>

NextPoll == PollCall \/ PollLoop \/ PollTimeout

SpecPoll == Init /\ [][NextPoll]_vars

NextQuery == QueryCall \/ QueryAttempt

SpecQuery == Init /\ [][NextQuery]_vars

NextOrch ==
    \/ OrchListWarehouses
    \/ OrchListSnapshots
    \/ OrchUpdate
    \/ OrchCreate
    \/ OrchPollLoop
    \/ OrchPollTimeout
    \/ OrchCreateFinish

SpecOrch == Init /\ [][NextOrch]_vars

\* One add_query call, from execute or direct, with its exception handler.
AddQueryBegin == AddQueryCall /\ UNCHANGED <<pollVars, orchVars, tokVars, openVars, backVars>>

AddQueryEnd ==
    AddQueryExit /\ UNCHANGED <<pollVars, orchVars, tokVars, openVars, backVars>>

NextAddQuery == AddQueryBegin \/ QueryAttempt \/ AddQueryEnd

SpecAddQuery == Init /\ [][NextAddQuery]_vars

\* Direct calls of get_cached_driver_backend in one interpreter.
Elsewhere == <<qVars, pollVars, orchVars, tokVars, openVars, aqVars>>

Interpreter == RuntimeStart /\ UNCHANGED Elsewhere

CachedBackend == CachedBackendCall /\ UNCHANGED Elsewhere

NextDriver == Interpreter \/ CachedBackend

SpecDriver == Init /\ [][NextDriver]_vars

\* Threads calling FabricConnectionManager.get_backend.
GetBackendEnter(t) == BackendEnter(t) /\ UNCHANGED Elsewhere

GetBackendTest(t) == BackendTest(t) /\ UNCHANGED Elsewhere

GetBackendResolve(t) == BackendResolve(t) /\ UNCHANGED Elsewhere

GetBackendLeave(t) == BackendLeave(t) /\ UNCHANGED Elsewhere

NextBackend ==
    \/ Interpreter
    \/ \E t \in Threads :
         GetBackendEnter(t) \/ GetBackendTest(t) \/ GetBackendResolve(t)
         \/ GetBackendLeave(t)

SpecBackend == Init /\ [][NextBackend]_vars

\* Calls of build_connection_string on either backend.
Build == BuildCall /\ UNCHANGED Elsewhere

NextBuild == Build

SpecBuild == Init /\ [][NextBuild]_vars

\* Calls of convert_bytes_to_mswindows_byte_string.
Convert == ConvertCall /\ UNCHANGED Elsewhere

NextConvert == Convert

SpecConvert == Init /\ [][NextConvert]_vars

\* Pairs of opens that differ in the secret only.
Display == DisplayCall /\ UNCHANGED Elsewhere

NextDisplay == Display

SpecDisplay == Init /\ [][NextDisplay]_vars

\* Threads calling get_token_attrs_before while time passes.
TokenBegin(t) ==
    /\ IF profile = NoProfile
       THEN \E credentials \in CredentialsGiven, backend \in Backends :
              TokenCall(t, credentials, backend)
       ELSE TokenCall(t, profile.credentials, profile.backend)
    /\ UNCHANGED <<qVars, pollVars, orchVars, openVars, backVars, aqVars>>

TokenAcquire(t) == TokenFetch(t) /\ UNCHANGED <<qVars, pollVars, orchVars, openVars, backVars, aqVars>>

TokenStore(t) == TokenAssign(t) /\ UNCHANGED <<qVars, pollVars, orchVars, openVars, backVars, aqVars>>

TokenEnd(t) == TokenReturn(t) /\ UNCHANGED <<qVars, pollVars, orchVars, openVars, backVars, aqVars>>

TimePasses == Tick /\ UNCHANGED <<qVars, pollVars, orchVars, openVars, backVars, aqVars>>

TokenStep(t) == TokenBegin(t) \/ TokenAcquire(t) \/ TokenStore(t) \/ TokenEnd(t)

NextToken == TimePasses \/ \E t \in Threads : TokenStep(t)

SpecToken == Init /\ [][NextToken]_vars

\* One thread calling get_token_attrs_before, one call after the other.
NextTokenSeq == TimePasses \/ TokenStep("t1")

SpecTokenSeq == Init /\ [][NextTokenSeq]_vars

\* Threads opening their connections in one process, and its exit.
Others == <<qVars, pollVars, orchVars, tokVars, backVars, aqVars>>

\* The installation in which both drivers load and nothing overrides the
\* profile: Python 3.10 or later, mssql-python and pyodbc installed.
SupportedRuntimes ==
    { rt \in Runtimes : rt.python310 /\ rt.mssql_python /\ rt.pyodbc /\ rt.env = None }

StartedAnywhere ==
    /\ ProcessStart
    /\ RuntimeStart
    /\ UNCHANGED <<qVars, pollVars, orchVars, tokVars, aqVars>>

Started == StartedAnywhere /\ runtime' \in SupportedRuntimes

Connect(t) == OpenConnect(t) /\ UNCHANGED <<qVars, pollVars, orchVars, aqVars>>

EnterInit(t) == OpenLock(t) /\ UNCHANGED Others

RunInit(t) == OpenInit(t) /\ UNCHANGED Others

LeaveInit(t) == OpenUnlock(t) /\ UNCHANGED Others

Exited == ProcessExit /\ UNCHANGED Others

NextOpen ==
    \/ Started
    \/ \E t \in Threads : Connect(t) \/ EnterInit(t) \/ RunInit(t) \/ LeaveInit(t)
    \/ Exited

SpecOpen == Init /\ [][NextOpen]_vars

\* Threads opening their connections, the start action seen up to and from
\* a sleep of its poller.
SleepInInit(t) == OpenInitSleep(t) /\ UNCHANGED Others

NextOpenSleep ==
    \/ Started
    \/ \E t \in Threads :
         Connect(t) \/ EnterInit(t) \/ SleepInInit(t) \/ RunInit(t) \/ LeaveInit(t)

SpecOpenSleep == Init /\ [][NextOpenSleep]_vars

\* One thread opening its connection, again and again, in any interpreter.
NextReopen ==
    \/ StartedAnywhere
    \/ Connect("t1") \/ EnterInit("t1") \/ RunInit("t1") \/ LeaveInit("t1")

SpecReopen == Init /\ [][NextReopen]_vars

\* One thread opening its connection, seen run by run of connect(), with
\* any profile, in any interpreter, while time passes.
\* Python 3.10 or later with nothing overriding the profile, whichever
\* drivers are installed.
CurrentRuntimes == { rt \in Runtimes : rt.python310 /\ rt.env = None }

StartedWithAnyMode ==
    /\ ProcessStartOfEveryMode
    /\ RuntimeStart
    /\ runtime' \in CurrentRuntimes
    /\ proc'.argv \in {<<W_dbt, W_run>>, <<W_dbt, W_debug>>}
    /\ UNCHANGED <<qVars, pollVars, orchVars, tokVars, aqVars>>

\* The first open call of the thread.
Enter(t) ==
    /\ op[t].calls = 0
    /\ OpenEnter(t)
    /\ UNCHANGED <<qVars, pollVars, orchVars, aqVars>>

Attempts(t) == OpenAttempt(t) /\ UNCHANGED <<qVars, pollVars, orchVars, aqVars>>

NextConnect == StartedWithAnyMode \/ Enter("t1") \/ Attempts("t1") \/ TimePasses

SpecConnect == Init /\ [][NextConnect]_vars


\* ================================================================ claims

\* ---- C1
\* C1: a statement whose every execution raises a retryable error is executed
\* exactly retry_limit times (retry_limit >= 1), and then the error of the
\* last execution leaves the retry routine as it was raised.  The routine
\* ends with a retryable error only when every execution raised one.
C1_RetryableErrorRaisedAfterExactlyLimitExecutions ==
    /\ (qPc # "idle" /\ qArgs.retry_limit >= 1) => qExecs <= qArgs.retry_limit
    /\ (/\ qPc = "done"
        /\ qArgs.retry_limit >= 1
        /\ ~qLastExec.ok
        /\ qLastExec.error.type \in qArgs.retryable_exceptions)
       => /\ qExecs = qArgs.retry_limit
          /\ qSleeps = qArgs.retry_limit - 1
          /\ qOutcome.kind = "raise"
          /\ qOutcome.error = qLastExec.error
          /\ qOutcome.error.n = qExecs

C1_Witness ==
    /\ qPc = "done"
    /\ qArgs.retry_limit = 3
    /\ qExecs = 3
    /\ qOutcome.kind = "raise"
    /\ qOutcome.error.type = "OperationalError"
    /\ "OperationalError" \in qArgs.retryable_exceptions

\* ---- C2
SucceededSpellings == {S_Succeeded, S_succeeded, S_SUCCEEDED}
FailedSpellings == {S_Failed, S_failed}

HasStatusIn(resp, spellings) ==
    /\ ~resp.raised
    /\ resp.code = 200
    /\ "status" \in resp.json.keys
    /\ resp.json.status \in spellings

\* A response that ends the polling neither with a result nor with an error.
NonTerminal(resp) ==
    /\ ~resp.raised
    /\ \/ resp.code = 202
       \/ /\ resp.code = 200
          /\ ~HasStatusIn(resp, SucceededSpellings \cup FailedSpellings)

TimedOut ==
    /\ pollOutcome.kind = "raise"
    /\ pollOutcome.error.type = "Exception"
    /\ pollOutcome.error.text = <<"Operation", poll.operation_id, "timed out after", "attempts">>
    /\ pollOutcome.error.n = poll.max_retries

C2_Bounded ==
    pollPc # "idle" =>
       /\ StatusGets = attempt
       /\ StatusGets <= poll.max_retries
       /\ (pollPc = "loop" => ENABLED NextPoll)
       /\ (pollPc = "done" /\ (attempt = 0 \/ NonTerminal(lastResp)))
            => (TimedOut /\ StatusGets = poll.max_retries)

C2_Progress == pollPc = "loop" => (pollPc' = "done" \/ attempt' = attempt + 1)

\* C2: the poller never issues more than max_retries status GETs; every step
\* of the loop ends it or uses up one of the max_retries iterations, so it
\* terminates; and when the last of max_retries answers is still not
\* terminal it raises the timeout error, which names the operation id.
C2_PollerBoundedAndTimesOut == []C2_Bounded /\ [][C2_Progress]_vars

C2_Witness ==
    /\ pollPc = "done"
    /\ poll.max_retries = 3
    /\ StatusGets = 3
    /\ TimedOut
    /\ poll.operation_id = "op1"

\* ---- C3
\* C3: after a 200 whose status is "succeeded" in any letter case the poller
\* has issued exactly one GET to {url}/result and has returned: the body of
\* that GET when it answered 200, the status payload when it answered
\* something else or failed; it has not raised and polls no further.
C3_SucceededReturnsResultOrStatusPayload ==
    (attempt > 0 /\ HasStatusIn(lastResp, SucceededSpellings))
    => /\ pollPc = "done"
       /\ pollOutcome.kind = "return"
       /\ resultGets = 1
       /\ resultUrl = <<poll.operation_url, "/result">>
       /\ pollOutcome.value =
            IF ~lastResult.raised /\ lastResult.code = 200
            THEN lastResult.json ELSE lastResp.json
       /\ StatusGets = attempt

C3_Witness ==
    /\ pollPc = "done"
    /\ attempt = 2
    /\ HasStatusIn(lastResp, {S_SUCCEEDED})
    /\ lastResult.code = 404
    /\ pollOutcome.kind = "return"
    /\ pollOutcome.value = lastResp.json

\* ---- C4
FailureNamed(resp) ==
    /\ pollOutcome.kind = "raise"
    /\ pollOutcome.error.type = "Exception"
    /\ Len(pollOutcome.error.text) = 5
    /\ pollOutcome.error.text[2] = poll.operation_id
    /\ pollOutcome.error.text[3] = "failed"
    /\ ("error" \in resp.json.keys /\ "code" \in resp.json.error.keys)
         => pollOutcome.error.text[4] = resp.json.error.code
    /\ ("error" \in resp.json.keys /\ "message" \in resp.json.error.keys)
         => pollOutcome.error.text[5] = resp.json.error.message

C4_Terminal ==
    (attempt > 0 /\ HasStatusIn(lastResp, FailedSpellings))
    => (pollPc = "done" /\ FailureNamed(lastResp) /\ StatusGets = attempt)

C4_NoSleepNoResult ==
    (pollPc = "loop" /\ attempt' = attempt + 1 /\ HasStatusIn(lastResp', FailedSpellings))
    => (sleeps' = sleeps /\ slept' = slept /\ resultGets' = resultGets /\ pollPc' = "done")

\* C4: a 200 whose status is "failed" ends the polling at once with an error
\* that carries the operation id and the code and message of the payload's
\* error object; that iteration neither sleeps nor GETs /result.
C4_FailedRaisesWithCodeAndMessage == []C4_Terminal /\ [][C4_NoSleepNoResult]_vars

C4_Witness ==
    /\ pollPc = "done"
    /\ attempt = 3
    /\ sleeps = 2
    /\ HasStatusIn(lastResp, {S_Failed})
    /\ pollOutcome.error.text = <<"Operation", "op1", "failed", "E1", "boom">>

\* ---- C5
\* C5: any answer to a status GET whose code is not 200, 201 or 202 makes
\* the poller raise at once, with the response's own error.
C5_OtherStatusRaises ==
    (attempt > 0 /\ ~lastResp.raised /\ lastResp.code \notin {200, 201, 202})
    => /\ pollPc = "done"
       /\ pollOutcome.kind = "raise"
       /\ pollOutcome.error = HTTPError(lastResp.code)

\* ---- C6
PendingStatus(resp) ==
    /\ ~resp.raised
    /\ resp.code = 200
    /\ ~HasStatusIn(resp, SucceededSpellings \cup FailedSpellings)

C6_Step ==
    (pollPc = "loop" /\ attempt' = attempt + 1 /\ PendingStatus(lastResp'))
    => /\ sleeps' = sleeps + 1
       /\ slept' = slept + poll.retry_delay
       /\ pollPc' = "loop"
       /\ pollOutcome' = pollOutcome
       /\ resultGets' = resultGets

\* C6: a 200 whose status is running, notstarted, undefined, unknown or
\* missing is not terminal: the iteration sleeps retry_delay once and the
\* loop goes on, with nothing returned or raised.
C6_PendingStatusSleepsOnceAndContinues == [][C6_Step]_vars

C6_Witness ==
    /\ pollPc = "loop"
    /\ attempt = 2
    /\ sleeps = 2
    /\ slept = 2 * poll.retry_delay
    /\ lastResp.json.status = S_Undefined
    /\ "status" \in lastResp.json.keys

\* ---- C7
Answers202x3Then201 ==
    /\ pollPc = "done"
    /\ poll.max_retries >= 4
    /\ StatusGets = 4
    /\ seen[202] = 3
    /\ seen[201] = 1
    /\ ~lastResult.raised
    /\ lastResult.code = 200

\* C7 as stated: after the answers 202, 202, 202, 201 the poller has slept
\* exactly twice and returns the body of {url}/result.
C7_SleepsTwice ==
    Answers202x3Then201
    => /\ sleeps = 2
       /\ pollOutcome.kind = "return"
       /\ pollOutcome.value = lastResult.json

\* C7 (amended): after the answers 202, 202, 202, 201 the poller has slept
\* exactly three times, once after each 202, and returns the body of the
\* {url}/result GET made after the fourth status GET, when that GET answers 200.
C7_SleepsThreeTimes ==
    Answers202x3Then201
    => /\ sleeps = 3
       /\ slept = 3 * poll.retry_delay
       /\ resultGets = 1
       /\ resultUrl = <<poll.operation_url, "/result">>
       /\ pollOutcome.kind = "return"
       /\ pollOutcome.value = lastResult.json

C7_Witness ==
    /\ Answers202x3Then201
    /\ sleeps = 3
    /\ pollOutcome.value = With(EmptyObj, "resourceId", "s9")

\* ---- C8
NameAndParentMatch(snapshot) ==
    /\ "displayName" \in snapshot.keys
    /\ snapshot.displayName = SnapshotName
    /\ "properties" \in snapshot.keys
    /\ snapshot.properties.parentWarehouseId = warehouse_id

IsWarehouseSnapshot(snapshot) == "type" \in snapshot.keys /\ snapshot.type = "WarehouseSnapshot"

\* C8 as stated: a listed record whose parentWarehouseId and displayName
\* match makes orchestrate PATCH that record and not POST.
C8_Step_AnyType ==
    (/\ orchPc = "gotSnapshots"
     /\ orchPc' # "gotSnapshots"
     /\ \E i \in 1..Len(warehouse_snapshots) : NameAndParentMatch(warehouse_snapshots[i]))
    => /\ reqs'.patch = reqs.patch + 1
       /\ reqs'.post = reqs.post
       /\ \E i \in 1..Len(warehouse_snapshots) :
             /\ NameAndParentMatch(warehouse_snapshots[i])
             /\ reqs'.patched = warehouse_snapshots[i].id

C8_MatchingNameAndParentUpdates == [][C8_Step_AnyType]_vars

C8_Step_Typed ==
    (/\ orchPc = "gotSnapshots"
     /\ orchPc' # "gotSnapshots"
     /\ \E i \in 1..Len(warehouse_snapshots) :
           NameAndParentMatch(warehouse_snapshots[i]) /\ IsWarehouseSnapshot(warehouse_snapshots[i]))
    => /\ reqs'.patch = reqs.patch + 1
       /\ reqs'.post = reqs.post
       /\ \E i \in 1..Len(warehouse_snapshots) :
             /\ NameAndParentMatch(warehouse_snapshots[i])
             /\ IsWarehouseSnapshot(warehouse_snapshots[i])
             /\ \A j \in 1..(i - 1) :
                   ~(NameAndParentMatch(warehouse_snapshots[j])
                     /\ IsWarehouseSnapshot(warehouse_snapshots[j]))
             /\ reqs'.patched = warehouse_snapshots[i].id

\* C8 (amended): in every orchestrate call, the first one and every later
\* one, a listed record of type WarehouseSnapshot whose parentWarehouseId
\* and displayName match makes orchestrate PATCH the first such record and
\* not POST.
C8_MatchingSnapshotUpdatesNeverCreates == [][C8_Step_Typed]_vars

C8_Witness ==
    /\ prevOp = "PATCH"
    /\ orchPc = "done"
    /\ reqs.patch = 1
    /\ reqs.post = 0
    /\ reqs.patched = "s2"
    /\ orchOutcome.kind = "return"

\* ---- C9
\* C9: after the POST, a 201 has returned the body without polling; a 202
\* with a Location has entered the poller with that Location and the
\* operation id header; a 202 without Location, and every other status,
\* has raised without polling and returned nothing.
C9_CreateDispatchesOnStatus ==
    (reqs.post = 1 /\ ~lastPost.raised)
    => /\ lastPost.code = 201
          => /\ orchPc = "done"
             /\ orchOutcome = Returned(Raw(lastPost.json))
             /\ pollPc = "idle"
       /\ (lastPost.code = 202 /\ "Location" \in lastPost.headers.keys)
          => /\ pollPc # "idle"
             /\ poll.operation_url = lastPost.headers["Location"]
             /\ poll.operation_id =
                   IF "x-ms-operation-id" \in lastPost.headers.keys
                   THEN lastPost.headers["x-ms-operation-id"] ELSE None
       /\ (lastPost.code = 202 /\ "Location" \notin lastPost.headers.keys)
          => /\ orchPc = "done"
             /\ orchOutcome.kind = "raise"
             /\ pollPc = "idle"
       /\ lastPost.code \notin {201, 202}
          => /\ orchPc = "done"
             /\ orchOutcome.kind = "raise"
             /\ pollPc = "idle"

C9_Witness ==
    /\ reqs.post = 1
    /\ lastPost.code = 202
    /\ "Location" \in lastPost.headers.keys
    /\ pollPc = "done"
    /\ attempt = 2
    /\ poll.operation_url = "https://loc/op1"
    /\ poll.operation_id = "op1"

\* ---- C10
C10_Step ==
    (/\ orchPc = "gotWarehouses"
     /\ orchPc' # "gotWarehouses"
     /\ ~\E i \in 1..Len(warehouse_list) :
           /\ warehouse_list[i].displayName = WarehouseName
           /\ warehouse_list[i].type = "Warehouse")
    => /\ orchPc' = "done"
       /\ orchOutcome'.kind = "raise"
       /\ reqs' = reqs

C10_Failed ==
    (orchPc = "done" /\ orchOutcome.error.type = "ValueError")
    => (reqs.listSnapshots = 0 /\ reqs.patch = 0 /\ reqs.post = 0)

\* C10: when no listed warehouse has the requested display name together
\* with the type Warehouse, orchestrate raises and has issued no
\* snapshot-list, PATCH or POST request.
C10_MissingWarehouseIsFatal == []C10_Failed /\ [][C10_Step]_vars

C10_Witness ==
    /\ orchPc = "done"
    /\ orchOutcome.kind = "raise"
    /\ orchOutcome.error.type = "ValueError"
    /\ reqs = [NoRequests EXCEPT !.listWarehouses = 1]

\* ---- C11
\* C11: every orchestrate call that returns, whether it updated a snapshot,
\* created one with a 201 or created one through the poller, returns a
\* record with exactly the keys snapshot_id, displayName, warehouse_id,
\* operation_type and operation.
C11_SuccessfulCallReturnsNormalizedRecord ==
    (orchPc = "done" /\ orchOutcome.kind = "return")
    => orchOutcome.value.keys = NormalizedKeys

\* ---- C12
\* C12: whatever the interleaving of the threads that call open, the start
\* action is run at most once in the process, and by at most one thread.
C12_StartActionAtMostOnce ==
    /\ startRuns <= 1
    /\ Cardinality({ t \in Threads : op[t].started.kind # "none" }) <= 1
    /\ Cardinality({ t \in Threads : op[t].pc \in {"locked", "ran", "skip"} }) <= 1

C12_Witness ==
    /\ startRuns = 1
    /\ orchRuns = 1
    /\ _init_done
    /\ \A t \in Threads : op[t].pc = "done" /\ op[t].out = Returned(t)
    /\ op["t2"].started.kind = "return"

\* ---- C13
CommandAllowed ==
    /\ Len(proc.argv) >= 2
    /\ \E c \in {<<"r","u","n">>, <<"b","u","i","l","d">>, <<"s","n","a","p","s","h","o","t">>} :
          Lower(proc.argv[2]) = c

SnapshotConfigured ==
    /\ proc.credentials.workspace_id # None
    /\ proc.credentials.warehouse_snapshot_name # None

\* C13: with an allow-listed command and the workspace id and snapshot name
\* configured, once an open has returned its connection the orchestration
\* has run exactly once and the end-of-run action is registered; with any
\* other command the orchestration never runs and nothing is registered.
C13_AllowListedCommandRunsOrchestrationOnce ==
    /\ (proc.running /\ CommandAllowed /\ SnapshotConfigured)
       => \A t \in Threads :
             (op[t].pc = "done" /\ op[t].out.kind = "return")
             => (orchRuns = 1 /\ Len(atexit) = 1)
    /\ (proc.running /\ ~CommandAllowed) => (orchRuns = 0 /\ atexit = <<>>)

\* ---- C14
\* C14: a start action that raised, whatever it raised, leaves the open
\* that ran it with its connection open and returned; an open raises only
\* when its connection could not be established.
C14_StartActionFailureIsContained ==
    \A t \in Threads :
       /\ op[t].started.kind = "raise"
          => /\ op[t].pc \in {"ran", "done"}
             /\ op[t].state = "open"
             /\ op[t].pc = "ran" => ENABLED LeaveInit(t)
             /\ op[t].pc = "done" => (op[t].out = Returned(t) /\ _init_lock # t)
       /\ op[t].out.kind = "raise"
          => /\ op[t].started.kind = "none"
             /\ op[t].state = "fail"

C14_Witness ==
    /\ op["t1"].pc = "done"
    /\ op["t1"].started = Raised(OperationTimedOut("op1", 5), EmptyResult)
    /\ op["t1"].out = Returned("t1")
    /\ op["t2"].pc = "done"
    /\ op["t2"].out = Returned("t2")
    /\ atexit = <<>>

\* ---- C15
ReportsSuccess(artifact) ==
    /\ artifact.exists
    /\ artifact.readable
    /\ "results" \in artifact.keys
    /\ Len(artifact.results) > 0
    /\ \A i \in 1..Len(artifact.results) :
          ~("status" \in artifact.results[i].keys /\ artifact.results[i].status = "error")

ReportsError(artifact) ==
    /\ artifact.exists
    /\ artifact.readable
    /\ "results" \in artifact.keys
    /\ \E i \in 1..Len(artifact.results) :
          "status" \in artifact.results[i].keys /\ artifact.results[i].status = "error"

\* C15: the end-of-run action sends an update only when run_results.json
\* reports success; the status is "error" when some result has the status
\* error and "unknown" when the file is missing, unreadable or without
\* results, and then no request is sent.
C15_EndActionUpdatesOnlyOnSuccess ==
    ended.done
    => /\ ended.status = (IF ReportsSuccess(ended.artifact) THEN "success"
                          ELSE IF ReportsError(ended.artifact) THEN "error" ELSE "unknown")
       /\ ended.patched # <<>> => ReportsSuccess(ended.artifact)
       /\ ended.status \in {"unknown", "error"} => ended.patched = <<>>

C15_Witness ==
    /\ ended.done
    /\ ended.patched = <<"s1">>
    /\ Len(ended.artifact.results) = 2
    /\ ended.artifact.results[2].status = "fail"

\* ---- C16
\* The profile maps to an acquisition strategy and the backend takes the
\* token out of band.
AcquiringProfile ==
    /\ profile.backend = "pyodbc"
    /\ \E a \in {A_cli, A_auto, A_environment, A_synapsespark, A_fabricnotebook} :
          Lower(profile.credentials.authentication) = a

TokenReturned(t) ==
    /\ tk[t].pc = "done"
    /\ tk[t].out.kind = "return"
    /\ tk[t].out.value.keys # {}

C16_Call ==
    (AcquiringProfile /\ tk["t1"].pc = "done")
    => /\ tk["t1"].fetches =
            IF tk["t1"].sawToken = NoToken \/ tk["t1"].sawToken.expires_on - tk["t1"].sawAt < 300
            THEN 1 ELSE 0
       /\ tk["t1"].fetches = 0
            => /\ TokenReturned("t1")
               /\ tk["t1"].out.value.of = tk["t1"].sawToken
               /\ tk["t1"].out.value.token = tk["t1"].sawToken.token
               /\ _TOKEN = tk["t1"].sawToken

C16_NextCall ==
    (AcquiringProfile /\ TokenReturned("t1") /\ tk'["t1"].pc = "return")
    => /\ tk'["t1"].sawToken = tk["t1"].out.value.of
       /\ acquisitions' = acquisitions
       /\ _TOKEN' = _TOKEN

\* C16: a call for a mapped auth mode and a token-bytes backend calls the
\* acquisition strategy exactly when no token is cached or the cached one
\* expires within 300 seconds of the time the call reads; otherwise it
\* acquires nothing and returns the cached token, so a call that follows
\* another while the token is outside the margin returns the same token.
C16_RefreshIffAbsentOrWithinMargin == []C16_Call /\ [][C16_NextCall]_vars

C16_Witness ==
    /\ AcquiringProfile
    /\ tk["t1"].pc = "done"
    /\ tokenCalls = 2
    /\ tk["t1"].fetches = 0
    /\ tk["t1"].sawAt = 4200
    /\ tk["t1"].out.value.of = AccessToken("p1", 4500)
    /\ acquisitions = 1

\* ---- C17
\* C17: whatever the interleaving of the threads, a call for a mapped auth
\* mode never returns a token that has less than 300 seconds left at the
\* time the call read when it tested the cached token.
C17_NoTokenPastMarginReturned ==
    \A t \in Threads :
       (AcquiringProfile /\ TokenReturned(t))
       => tk[t].out.value.of.expires_on - tk[t].sawAt >= 300

\* ---- C18
StaticProfile ==
    Lower(profile.credentials.authentication) =
       <<"a","c","t","i","v","e","d","i","r","e","c","t","o","r","y",
         "a","c","c","e","s","s","t","o","k","e","n">>

StaticOutcome(t) ==
    IF profile.credentials.nulls # {}
    THEN /\ tk[t].out.kind = "raise"
         /\ tk[t].out.error.type = "ValueError"
         /\ tk[t].fetches = 0
    ELSE /\ TokenReturned(t)
         /\ tk[t].out.value.token = profile.credentials.access_token
         /\ tk[t].out.value.of.expires_on =
               IF profile.credentials.access_token_expires_on = 0
               THEN tk[t].sawAt + 4500
               ELSE profile.credentials.access_token_expires_on
         /\ tk[t].fetches = 0

\* C18 as stated: in static-access-token mode the call raises the
\* configuration error when the token or its expiry is null, and otherwise
\* uses the supplied token with the supplied expiry, 0 standing for now + 4500.
C18_StaticTokenRequiresTokenAndExpiry ==
    (StaticProfile /\ tk["t1"].pc = "done") => StaticOutcome("t1")

\* C18 (amended): the same, for a backend that takes the token out of band.
C18_StaticTokenOnTokenBytesBackend ==
    (StaticProfile /\ profile.backend = "pyodbc" /\ tk["t1"].pc = "done")
    => StaticOutcome("t1")

C18_Witness ==
    /\ StaticProfile
    /\ profile.backend = "pyodbc"
    /\ tk["t1"].pc = "done"
    /\ profile.credentials.nulls = {}
    /\ profile.credentials.access_token_expires_on = 0
    /\ tk["t1"].sawAt = 4199
    /\ tk["t1"].out.value.of = AccessToken("static", 8699)

\* ---- C19
C19_Never ==
    profile.backend = "mssql-python"
    => /\ acquisitions = 0
       /\ _TOKEN = NoToken
       /\ tk["t1"].pc = "done"
       /\ tk["t1"].out = Returned(EmptyAttrs)
       /\ tk["t1"].fetches = 0

C19_Call ==
    (tokenCalls' = tokenCalls + 1 /\ profile'.backend = "mssql-python")
    => /\ _TOKEN' = _TOKEN
       /\ acquisitions' = acquisitions
       /\ tk'["t1"].pc = "done"

\* C19: with the backend that embeds authentication in the connection
\* string, every call, whatever the auth mode, returns the empty map at
\* once, calls no acquisition strategy and leaves _TOKEN as it was.
C19_EmbeddedAuthBackendReturnsEmptyMap == []C19_Never /\ [][C19_Call]_vars

C19_Witness ==
    /\ profile.backend = "mssql-python"
    /\ profile.credentials.authentication = A_cli
    /\ tokenCalls = 2
    /\ tk["t1"].pc = "done"
    /\ tk["t1"].out = Returned(EmptyAttrs)
    /\ now = 4200

\* ---------------------------------------------------------------- C22
Max(a, b) == IF a >= b THEN a ELSE b

\* C22 (as stated): the retry limit applied to a query equals
\* max(credentials.retries, 3) for every configured value of retries.
C22_RetryLimitIsMaxOfRetriesAndThree ==
    aq.pc # "idle" => qArgs.retry_limit = Max(aq.retries, 3)

\* C22 (amended): the retry limit applied to a query is credentials.retries
\* when that exceeds 3, and otherwise the retry_limit argument of add_query,
\* which is 2 when execute makes the call.
C22_RetryLimitIsRetriesAboveThreeElseArgument ==
    aq.pc # "idle" =>
      /\ aq.retries > 3 => qArgs.retry_limit = aq.retries
      /\ aq.retries <= 3 => qArgs.retry_limit = aq.retry_limit
      /\ aq.caller = "execute" /\ aq.retries <= 3 => qArgs.retry_limit = 2

C22_Witness ==
    /\ aq.pc = "done"
    /\ aq.caller = "execute"
    /\ aq.retries = 3
    /\ qArgs.retry_limit = 2

\* ---------------------------------------------------------------- C23
\* The first execution of the statement failed with an error of the
\* backend's transient-error set.
FirstExecutionFailedTransiently ==
    /\ qExecs = 1
    /\ ~qLastExec.ok
    /\ Catches(qLastExec.error, RetryableExceptions(aq.backend))

\* C23: a statement issued through execute that fails with an error of the
\* backend's transient-error set is retried after a one-second sleep, and
\* when the second execution succeeds execute completes successfully.
C23_ExecuteRetriesTransientError ==
    aq.caller = "execute" =>
      /\ FirstExecutionFailedTransiently => qPc = "try" /\ qSleeps = 1
      /\ aq.pc = "done" /\ qExecs = 2 /\ qLastExec.ok => aq.out.kind = "return"

\* ---------------------------------------------------------------- C24
\* The statement left the retry routine with a database-classified driver
\* error.
DatabaseErrorRaised ==
    /\ qOutcome.kind = "raise"
    /\ Catches(qOutcome.error, ErrorTypes(aq.backend))
    /\ IsInstance(qOutcome.error, DatabaseError(aq.backend))

\* C24: when a statement raises a database-classified driver error the
\* handler attempts the release exactly once, swallows a failure of the
\* release, and raises one adapter database error wrapping the driver error.
C24_DatabaseErrorReleasedOnceThenWrapped ==
    aq.pc = "done" /\ DatabaseErrorRaised =>
      /\ aq.releases = 1
      /\ aq.out.kind = "raise"
      /\ aq.out.error.type = "DbtDatabaseError"
      /\ aq.out.error.text = <<qOutcome.error.type>>
      /\ aq.out.error.n = qOutcome.error.n

C24_Witness ==
    /\ aq.pc = "done"
    /\ DatabaseErrorRaised
    /\ aq.releaseFailed
    /\ aq.out.error.type = "DbtDatabaseError"

\* ---------------------------------------------------------------- C25
\* The statement left the retry routine with an error that is no driver
\* error.
UnexpectedErrorRaised ==
    /\ qOutcome.kind = "raise"
    /\ ~Catches(qOutcome.error, ErrorTypes(aq.backend))

\* What the handler raises for an unexpected error e when nothing else
\* fails: e itself when it is an internal error, a wrapping runtime error
\* otherwise.
SurfacesAs(e, raised) ==
    IF IsInstance(e, "DbtRuntimeError")
    THEN raised = e
    ELSE /\ raised.type = "DbtRuntimeError"
         /\ raised.text = <<e.type>>
         /\ raised.n = e.n

\* C25 (as stated): when a statement raises an unexpected error the handler
\* releases the connection and then raises a wrapping runtime error, except
\* that an internal error is raised again untouched.
C25_UnexpectedErrorReleasedThenWrapped ==
    aq.pc = "done" /\ UnexpectedErrorRaised =>
      /\ aq.releases = 1
      /\ aq.out.kind = "raise"
      /\ SurfacesAs(qOutcome.error, aq.out.error)

\* C25 (amended): the same, provided the release does not fail; a failure
\* of the release is not caught and propagates in place of either error.
C25_UnexpectedErrorReleasedThenWrappedUnlessReleaseFails ==
    aq.pc = "done" /\ UnexpectedErrorRaised =>
      /\ aq.releases = 1
      /\ aq.out.kind = "raise"
      /\ ~aq.releaseFailed => SurfacesAs(qOutcome.error, aq.out.error)
      /\ aq.releaseFailed => aq.out.error = ReleaseError

C25_Witness ==
    /\ aq.pc = "done"
    /\ UnexpectedErrorRaised
    /\ ~aq.releaseFailed
    /\ IsInstance(qOutcome.error, "DbtRuntimeError")
    /\ aq.out.error = qOutcome.error

\* ---------------------------------------------------------------- C26
\* The retry routine gave up on a transient error: the statement was
\* executed retry_limit times and every retryable error was retried until
\* the last one was raised.
TransientErrorExhausted ==
    /\ qOutcome.kind = "raise"
    /\ Catches(qOutcome.error, RetryableExceptions(aq.backend))
    /\ qArgs.retryable_exceptions = RetryableExceptions(aq.backend)
    /\ qExecs >= qArgs.retry_limit

\* C26: a transient driver error that persists until the retry bound is
\* exhausted leaves add_query only as the adapter's wrapping database error
\* or runtime error, never as the raw driver exception.
C26_ExhaustedTransientErrorSurfacesWrapped ==
    aq.pc = "done" /\ TransientErrorExhausted =>
      /\ aq.out.kind = "raise"
      /\ aq.out.error.type \in {"DbtDatabaseError", "DbtRuntimeError"}

\* ---------------------------------------------------------------- C27
\* The call ended by returning an instance of the named backend.
ReturnedBackend(out, name) == out.kind = "return" /\ out.value.name = name

\* C27: with preference auto, resolution returns mssql-python whenever it
\* can be loaded on a supported runtime and otherwise falls back to pyodbc;
\* with an explicit preference it returns exactly that backend or raises;
\* with any other preference it raises a configuration error.
C27_ResolutionFollowsPreference ==
    cached.resolved =>
      LET preferred == cached.preferred
          out == cached.out
          native == runtime.python310 /\ runtime.mssql_python
      IN  /\ preferred = "auto" /\ native => ReturnedBackend(out, "mssql-python")
          /\ preferred = "auto" /\ ~native =>
               IF runtime.pyodbc THEN ReturnedBackend(out, "pyodbc")
               ELSE out.kind = "raise" /\ out.error.type = "ImportError"
          /\ preferred \in {"mssql-python", "pyodbc"} =>
               \/ ReturnedBackend(out, preferred)
               \/ out.kind = "raise" /\ out.error.type = "ImportError"
          /\ preferred \notin {"auto", "mssql-python", "pyodbc"} =>
               out.kind = "raise" /\ out.error.type = "ValueError"

C27_Witness ==
    /\ cached.resolved
    /\ cached.preferred = "auto"
    /\ runtime.python310
    /\ ~runtime.mssql_python
    /\ ReturnedBackend(cached.out, "pyodbc")

\* ---------------------------------------------------------------- C28
\* C28: the instance get_cached_driver_backend returns is one resolved for
\* the preference of the current call; a call with the preference the cache
\* holds returns the cached instance without resolving, and a call with
\* another preference resolves and, when that succeeds, caches and returns
\* a new instance.
C28_CachePerPreference ==
    cached.n > 0 =>
      LET out == cached.out
          filled == cached.before # NoBackend
      IN  /\ out.kind = "return" => madeFor[out.value.id] = cached.preferred
          /\ filled /\ cached.beforePreference = cached.preferred =>
               ~cached.resolved /\ out = Returned(cached.before)
          /\ filled /\ cached.beforePreference # cached.preferred =>
               /\ cached.resolved
               /\ out.kind = "return" =>
                    /\ out.value.id # cached.before.id
                    /\ _active_backend = out.value
                    /\ _active_backend_preference = cached.preferred

C28_Witness ==
    /\ cached.n = 3
    /\ cached.before.id = 1
    /\ cached.beforePreference = "auto"
    /\ cached.preferred = "pyodbc"
    /\ cached.out.kind = "return"
    /\ cached.out.value.id = 2

\* ---------------------------------------------------------------- C29
\* Every finished get_backend call that returned holds the memoized backend,
\* and the class attribute was assigned at most once.
C29_OneBackend ==
    /\ backendSets <= 1
    /\ \A t \in Threads :
         gb[t].pc = "done" /\ gb[t].out.kind = "return" =>
           /\ _backend # NoBackend
           /\ gb[t].out.value = _backend

\* Once resolved, the backend does not change.
C29_Immutable == _backend # NoBackend => _backend' = _backend

\* C29: under any interleaving of threads calling get_backend, resolution
\* succeeds at most once, every call returns that same instance, and the
\* resolved backend never changes.
C29_BackendResolvedOncePerProcess == [](C29_OneBackend) /\ [][C29_Immutable]_vars

C29_Witness ==
    /\ \A t \in Threads : gb[t].pc = "done" /\ gb[t].out.kind = "return"
    /\ gb["t1"].setting # gb["t2"].setting
    /\ gb["t1"].out.value = gb["t2"].out.value
    /\ backendSets = 1

\* ---------------------------------------------------------------- C30
SqlMode(a) == Lower(a.authentication) = A_sql

RaisedDatabaseError(out) == out.kind = "raise" /\ out.error.type = "DatabaseError"

\* C30 (as stated): for both backends build_connection_string raises if
\* and only if the authentication mode is SQL, and then it raises a
\* database-classified error, whatever the other arguments are.
C30_RaisesIffSqlMode ==
    built # NoBuilt =>
      /\ SqlMode(built.args) => RaisedDatabaseError(built.out)
      /\ ~SqlMode(built.args) => built.out.kind = "return"

\* C30 (amended): for both backends build_connection_string raises if and
\* only if windows_login is not set and the authentication mode is SQL, and
\* then it raises a database-classified error; with windows_login set it
\* returns a trusted-connection string whatever the authentication mode is.
C30_RaisesIffSqlModeWithoutWindowsLogin ==
    built # NoBuilt =>
      LET a == built.args
      IN  /\ SqlMode(a) /\ ~a.windows_login => RaisedDatabaseError(built.out)
          /\ ~SqlMode(a) \/ a.windows_login => built.out.kind = "return"
          /\ a.windows_login =>
               \E i \in 1..Len(built.out.value) :
                 /\ built.out.value[i].key \in {"Trusted_Connection", "trusted_connection"}
                 /\ built.out.value[i].value = "Yes"

C30_Witness ==
    /\ built.backend = "mssql-python"
    /\ built.args.authentication = A_SQL
    /\ ~built.args.windows_login
    /\ RaisedDatabaseError(built.out)

\* ---------------------------------------------------------------- C21
\* Thread t makes an open call on its connection, which is open.
OpensAgain(t) ==
    /\ op[t].pc = "done"
    /\ op[t].state = "open"
    /\ op'[t].calls = op[t].calls + 1

\* C21: open on a connection that is already open returns the same
\* connection and resolves no backend, acquires no token, attempts no
\* connection and runs no start action; the init flag, the cached token and
\* the memoized backend stay as they are.
C21_OpenOnOpenConnectionIsNoOp ==
    [][\A t \in Threads :
         OpensAgain(t) =>
           /\ op'[t].pc = "done"
           /\ op'[t].out = Returned(t)
           /\ op'[t].state = "open"
           /\ op'[t].connects = op[t].connects
           /\ UNCHANGED <<instances, _active_backend, _active_backend_preference,
                          _backend, backendSets>>
           /\ UNCHANGED <<_TOKEN, acquisitions>>
           /\ UNCHANGED <<_init_done, _init_lock, _snapshot_manager, atexit,
                          startRuns, orchRuns>>]_vars

C21_Witness ==
    /\ op["t1"].calls = 2
    /\ op["t1"].pc = "done"
    /\ op["t1"].state = "open"
    /\ op["t1"].out = Returned("t1")
    /\ op["t1"].connects = 1
    /\ _backend.name = "pyodbc"
    /\ acquisitions = 1
    /\ _TOKEN # NoToken
    /\ startRuns = 1
    /\ _init_done

\* ---------------------------------------------------------------- C31
\* The values of the fields named key in a returned connection string.
Fields(out, key) ==
    IF out.kind = "return"
    THEN { i \in 1..Len(out.value) : out.value[i].key = key }
    ELSE {}

\* An Active-Directory mode: the mode name contains "ActiveDirectory" and
\* the connection is not a Windows login.
ActiveDirectoryMode(a) ==
    ~a.windows_login /\ Contains(a.authentication, A_ActiveDirectory)

LoginHintModes ==
    {A_ActiveDirectoryPassword, A_ActiveDirectoryServicePrincipal,
     A_ActiveDirectoryInteractive}

SecretModes == {A_ActiveDirectoryPassword, A_ActiveDirectoryServicePrincipal}

\* C31: for both backends, build_connection_string for an Active-Directory
\* mode other than the static access token emits an Authentication field
\* naming the mode, UID only for the password, service-principal and
\* interactive modes, and PWD only for the password and service-principal
\* modes (not for interactive, even with a password argument); for the
\* static access token it emits none of Authentication, UID, PWD.
C31_AuthenticationFieldsFollowMode ==
    built # NoBuilt /\ ActiveDirectoryMode(built.args) =>
      LET a == built.args
          out == built.out
      IN  IF a.authentication = A_ActiveDirectoryAccessToken
          THEN /\ out.kind = "return"
               /\ Fields(out, "Authentication") = {}
               /\ Fields(out, "UID") = {}
               /\ Fields(out, "PWD") = {}
          ELSE /\ out.kind = "return"
               /\ Cardinality(Fields(out, "Authentication")) = 1
               /\ \A i \in Fields(out, "Authentication") :
                    out.value[i].value = a.authentication
               /\ Fields(out, "UID") # {} => a.authentication \in LoginHintModes
               /\ Fields(out, "PWD") # {} => a.authentication \in SecretModes

\* ---------------------------------------------------------------- C32
\* The returned string has exactly one field with this key, with this value.
OneField(out, key, value) ==
    /\ Cardinality(Fields(out, key)) = 1
    /\ \A i \in Fields(out, key) : out.value[i].value = value

EncryptKey(backend) == IF backend = "pyodbc" THEN "encrypt" ELSE "Encrypt"

\* C32: every connection string returned by either backend contains the
\* server, the database, the application name, ConnectRetryCount=3 and
\* ConnectRetryInterval=10, and exactly one encryption field and exactly one
\* certificate-trust field, each Yes if and only if the corresponding
\* boolean argument is true.
C32_EveryStringHasFixedFieldsAndFlags ==
    built # NoBuilt /\ built.out.kind = "return" =>
      LET a == built.args
          out == built.out
      IN  /\ OneField(out, "SERVER", a.host)
          /\ OneField(out, "Database", a.database)
          /\ OneField(out, "APP", a.application_name)
          /\ OneField(out, "ConnectRetryCount", "3")
          /\ OneField(out, "ConnectRetryInterval", "10")
          /\ OneField(out, EncryptKey(built.backend), YesNo(a.encrypt))
          /\ Fields(out, "Encrypt") \cup Fields(out, "encrypt")
               = Fields(out, EncryptKey(built.backend))
          /\ OneField(out, "TrustServerCertificate", YesNo(a.trust_cert))

C32_Witness ==
    /\ built.backend = "pyodbc"
    /\ built.out.kind = "return"
    /\ ~built.args.encrypt
    /\ built.args.trust_cert
    /\ OneField(built.out, "encrypt", "No")
    /\ OneField(built.out, "TrustServerCertificate", "Yes")

\* ---------------------------------------------------------------- C33
\* The number four bytes encode, least significant byte first.
LittleEndian(b) == b[1] + 256 * b[2] + 65536 * b[3] + 16777216 * b[4]

\* Decoding: drop the four-byte prefix and the zero byte after each byte.
Decode(s) == [i \in 1..((Len(s) - 4) \div 2) |-> s[4 + 2 * i - 1]]

\* C33: the conversion maps a byte string of length n to the 4-byte
\* little-endian encoding of 2n followed by each byte followed by a zero
\* byte (length 4 + 2n; "abc" gives 6,0,0,0,a,0,b,0,c,0; the empty string
\* gives four zero bytes), and decoding recovers the original string.
C33_LengthPrefixedWideBytesRoundTrip ==
    converted # NoConversion =>
      LET value == converted.value
          out == converted.out
          n == Len(value)
      IN  /\ out.kind = "return"
          /\ Len(out.value) = 4 + 2 * n
          /\ LittleEndian(SubSeq(out.value, 1, 4)) = 2 * n
          /\ \A i \in 1..n : /\ out.value[4 + 2 * i - 1] = value[i]
                              /\ out.value[4 + 2 * i] = 0
          /\ Decode(out.value) = value
          /\ value = <<97, 98, 99>> => out.value = <<6, 0, 0, 0, 97, 0, 98, 0, 99, 0>>
          /\ value = <<>> => out.value = <<0, 0, 0, 0>>

C33_Witness ==
    /\ converted.value = <<97, 0, 255>>
    /\ converted.out.kind = "return"
    /\ converted.out.value = <<6, 0, 0, 0, 97, 0, 0, 0, 255, 0>>

\* ---------------------------------------------------------------- C34
\* Thread t sleeps in the poll loop of the one-time orchestration.
SleepsInPoll(t) == op[t].pc = "polling"

\* Thread t is inside an open call.
Opens(t) == op[t].pc \notin {"idle", "done"}

\* A step of the open call of thread t.
OpenStep(t) ==
    Connect(t) \/ EnterInit(t) \/ SleepInInit(t) \/ RunInit(t) \/ LeaveInit(t)

\* C34: poll sleeps block only the calling thread: while one thread sleeps
\* in the poll loop started by the one-time orchestration inside open, no
\* other thread's open is prevented from making progress.
C34_SleepBlocksOnlyTheSleeper ==
    \A a, b \in Threads :
      a # b /\ SleepsInPoll(a) /\ Opens(b) => ENABLED OpenStep(b)

\* ---------------------------------------------------------------- C35
\* The connection string names the authentication: an Authentication field
\* or a trusted-connection flag.
EmbedsAuthentication(connection_string) ==
    \E i \in 1..Len(connection_string) :
      connection_string[i].key
        \in {"Authentication", "Trusted_Connection", "trusted_connection"}

\* C35: for every backend and every supported non-SQL auth mode, each
\* connection attempt made by open carries authentication material: when the
\* attribute map handed to backend.connect is empty, the connection string
\* has an Authentication field or a trusted-connection flag.
C35_EveryAttemptCarriesAuthentication ==
    \A t \in Threads :
      LET made == op[t].attempt
      IN  made.called /\ made.attrs_before.keys = {}
            => EmbedsAuthentication(made.connection_string)

\* ---------------------------------------------------------------- C36
\* C36: the display variant of the connection string that open logs never
\* contains the secret used for authentication, the string handed to the
\* driver is the unmasked one, and two opens that differ only in the secret
\* log the same display string.
C36_DisplayStringHidesSecret ==
    logged # NoLogged =>
      /\ \A r \in {logged.first, logged.second} :
           Truthy(r.pwd) =>
             /\ ~Contains(r.con_str_display, Chars(r.pwd))
             /\ Contains(r.connection_string, Chars(r.pwd))
      /\ Truthy(logged.first.pwd) /\ Truthy(logged.second.pwd)
           => logged.first.con_str_display = logged.second.con_str_display

\* ---------------------------------------------------------------- C37
\* The id of the snapshot a result of orchestrate tells of: the normalized
\* snapshot_id, or the id of the body of a synchronous create.
SnapshotOf(result) ==
    IF "snapshot_id" \in result.keys THEN result.snapshot_id
    ELSE Get(result.body, "id", None)

\* C37: whenever the one-time start action succeeded in creating or
\* updating the snapshot (update, synchronous create, polled create) and the
\* run-results artifact reports success, the registered end-of-run action
\* issues exactly one update request, for that snapshot's id.
C37_EndActionUpdatesTheSnapshotOfTheStartAction ==
    (/\ ended.done
     /\ ended.status = "success"
     /\ orchRuns = 1
     /\ Len(atexit) = 1
     /\ SnapshotOf(atexit[1]) # None)
    => ended.patched = << SnapshotOf(atexit[1]) >>

\* ---------------------------------------------------------------- C38
\* The call has issued at most one mutating request and, when it returned,
\* exactly one.
C38_AtMostOne ==
    /\ reqs.patch + reqs.post <= 1
    /\ orchPc = "done" /\ orchOutcome.kind = "return" => reqs.patch + reqs.post = 1

\* The call ends in the step that lists the warehouses or in the step that
\* looks the warehouse up and lists the snapshots: it has issued no
\* mutating request.
C38_LookupFailure ==
    orchPc \in {"idle", "done", "gotWarehouses"} /\ orchPc' = "done"
      => /\ orchOutcome'.kind = "raise"
         /\ reqs'.patch = 0
         /\ reqs'.post = 0

\* C38: each orchestrate call issues at most one mutating request, either
\* a single PATCH or a single POST, never both, and none at all when it
\* fails during the warehouse or snapshot lookup.
C38_AtMostOneMutatingRequest == []C38_AtMostOne /\ [][C38_LookupFailure]_vars

C38_Witness ==
    /\ orchPc = "done"
    /\ orchOutcome.kind = "raise"
    /\ reqs.listSnapshots = 1
    /\ reqs.patch = 1
    /\ reqs.post = 0
    /\ prevOp = "POST"

\* ---------------------------------------------------------------- C39
\* The profile names an acquisition strategy.
StrategyMode == Lower(proc.credentials.authentication) \in AZURE_AUTH_FUNCTIONS

\* The token handed to backend.connect was outside the safety margin when
\* the attempt was made.
C39_Fresh ==
    \A t \in Threads :
      LET made == op[t].attempt
      IN  made.called /\ made.attrs_before.keys # {} /\ StrategyMode
            => made.attrs_before.of.expires_on - made.at >= MAX_REMAINING_TIME

\* A call of backend.connect comes with a call of get_token_attrs_before,
\* made in the same run of connect() before it.
C39_AskedBeforeConnect ==
    \A t \in Threads :
      op'[t].connects = op[t].connects + 1 => tokenCalls' = tokenCalls + 1

\* A run of connect() that finds the cached token inside the safety margin
\* acquires a token, and hands the new token to backend.connect.
C39_Refreshed ==
    \A t \in Threads :
      (/\ op'[t].attempt.n = op[t].attempt.n + 1
       /\ StrategyMode
       /\ RequiresTokenBytes(_backend.name)
       /\ _TOKEN # NoToken
       /\ _TOKEN.expires_on - now < MAX_REMAINING_TIME)
      => /\ acquisitions' = acquisitions + 1
         /\ op'[t].attempt.called =>
              /\ _TOKEN' # _TOKEN
              /\ op'[t].attempt.attrs_before.of = _TOKEN'

\* C39: token freshness is re-evaluated on every connection attempt: each
\* attempt made by open, the first and every retry, calls
\* get_token_attrs_before before the driver's connect, so a cached token
\* that comes within 300 seconds of expiry between two attempts is
\* refreshed before the next attempt.
C39_TokenReevaluatedOnEveryAttempt ==
    []C39_Fresh /\ [][C39_AskedBeforeConnect /\ C39_Refreshed]_vars

C39_Witness ==
    LET made == op["t1"].attempt
    IN  /\ op["t1"].calls = 1
        /\ made.n = 2
        /\ made.called
        /\ made.at > 0
        /\ acquisitions = 2
        /\ tokenCalls = 2
        /\ made.attrs_before.of.token = "p2"
        /\ made.attrs_before.of = _TOKEN

\* ---------------------------------------------------------------- C40
\* The threads whose open ran the start action.
Starters == { t \in Threads : op[t].started.kind # "none" }

\* The flag is set once the thread that ran the start action has left the
\* with block, whatever the start action did, and not before any run of it;
\* the start action ran at most once; at most one function is registered,
\* and it carries the result a start action returned.
C40_FlagAndRegistration ==
    /\ \A t \in Starters : op[t].pc = "done" => _init_done
    /\ _init_done => startRuns = 1
    /\ startRuns <= 1
    /\ Len(atexit) <= 1
    /\ atexit # <<>> => \E t \in Starters : op[t].started = Returned(atexit[1])
    /\ (\E t \in Starters : op[t].started.kind = "raise") => atexit = <<>>

\* Once set the flag stays set, and then no open runs the start action or
\* registers a function.
C40_FlagStays ==
    _init_done => /\ _init_done'
                  /\ startRuns' = startRuns
                  /\ atexit' = atexit

\* C40: the init-done flag is monotonic and is set after the first attempt
\* of the start action whether it succeeded or failed; a failed start
\* action is never retried by a later open, the end-of-run action is
\* registered at most once per process, and only when the start action
\* returned without error.
C40_InitDoneIsSetOnceAndStays ==
    []C40_FlagAndRegistration /\ [][C40_FlagStays]_vars

\* The start action failed in the open of t1; t2 opened afterwards, found
\* the flag set and ran nothing.
C40_Witness ==
    /\ op["t1"].started.kind = "raise"
    /\ op["t1"].pc = "done"
    /\ op["t2"].pc = "skip"
    /\ op["t2"].started.kind = "none"
    /\ _init_done
    /\ startRuns = 1
    /\ atexit = <<>>

====
